---- MODULE Spec2Model ----
(***************************************************************************)
(* State-machine model of the sham shared-memory queues:                   *)
(*   - sham::MpmcQueue<kCapacity>      (queue_mpmc_var.h), the variable-   *)
(*     size byte ring with the three cursors head_/read_/tail_;            *)
(*   - sham::mpmc::Queue<T,kCapacity>  (queue_mpmc.h), the fixed-size      *)
(*     ring with per-slot turn counters.                                   *)
(* Every atomic load, store, CAS and fetch_add of the source is one step   *)
(* of the calling thread; a memcpy of a payload is one step.  Memory is    *)
(* sequentially consistent.                                                *)
(***************************************************************************)
EXTENDS Integers, Sequences, FiniteSets, Bags, TLC

(***************************************************************************)
(* Bounds of the model.                                                    *)
(***************************************************************************)
\* log2 of the ring size in bytes (kCapacity is a template argument and a
\* power of two: 2^9 = 512 bytes = 4 cache lines)
CapacityBits == 9
\* width of size_t in the model, in bits
SizeBits == 16
\* threads of the concurrent specifications
NumProducers == 2
NumConsumers == 2
\* successful try_push calls per behaviour (concurrent / sequential)
MaxPushConc == 3
MaxPushSeq == 5
\* template argument kCapacity of sham::mpmc::Queue
QueueCapacity == 1
\* head tickets taken per behaviour of the Queue
MaxPushFix == 4
\* pushes of each producer of the benchmark
PushPerThread == 2
\* head tickets taken per behaviour of the Queue when the calls do not
\* overlap
MaxPushFixSeq == 6
\* segments process B constructs, and calls of Allocate and As on a segment
MaxOpens == 2
MaxSegCalls == 2
\* moves of segments per behaviour
MaxMoves == 1
\* calls on the LockingQueue per behaviour, and the values pushed
MaxLockCalls == 9
MaxLockValue == 2

(***************************************************************************)
(* sham::MpmcQueue<kCapacity>: constants and pure helpers.                 *)
(***************************************************************************)
kCacheLineSize == 128
SizeofHeader == 4
kReadyToFill == 0

RECURSIVE Pow2(_)
Pow2(n) == IF n = 0 THEN 1 ELSE 2 * Pow2(n - 1)

kCapacity == Pow2(CapacityBits)
SizeMod == Pow2(SizeBits)

\* a & b on size_t, bit by bit from the lowest
BitAnd(a, b) ==
  LET and[x \in Nat, y \in Nat] ==
        IF x = 0 \/ y = 0 THEN 0
        ELSE (x % 2) * (y % 2) + 2 * and[x \div 2, y \div 2]
  IN and[a, b]

\* ~x on size_t
BitNot(x) == (SizeMod - 1) - x

\* C11, a faulty variant: the flag bits of head_ are not masked out
mask_AllBits == SizeMod - 1

\* constexpr size_t mask = ~static_cast<size_t>(3);
mask == BitNot(3)

align_to_cache_line(size) ==
  BitAnd((size + kCacheLineSize - 1) % SizeMod, BitNot(kCacheLineSize - 1))

idx(i) == BitAnd(i, kCapacity - 1)

\* get_header: the byte offset in data_ of the header addressed by index
get_header(index) == idx(BitAnd(index, BitNot(3)))

\* the CHECK of get_header
get_header_CHECK(index) ==
  BitAnd(idx(BitAnd(index, BitNot(3))), kCacheLineSize - 1) = 0

NumLines == kCapacity \div kCacheLineSize
\* cache lines behind data_[kCapacity] that a block starting in the last
\* line of the ring can extend into
NumBeyond == NumLines

\* producers call try_push, consumers call try_pop, the observer calls size
Producers == 1..NumProducers
Consumers == (NumProducers + 1)..(NumProducers + NumConsumers)
Observers == {NumProducers + NumConsumers + 1}
Threads == Producers \cup Consumers \cup Observers

\* the sets of threads that run together in the concurrent specification:
\* all producers and consumers, or one of each and the observer
Teams == { Producers \cup Consumers,
           {1, NumProducers + 1} \cup Observers }

(***************************************************************************)
(* Payloads.  A payload is len bytes of caller data; id identifies the     *)
(* record (assigned when head_ is acquired), fill is the 32-bit word the   *)
(* caller's bytes form where they land on a later line's first four bytes. *)
(* The bytes are kept per cache line: line j of the block holds the piece  *)
(* <<id, j>> of the payload.                                               *)
(***************************************************************************)
NoPiece == <<0, 0>>
Garbage == <<-1, -1>>
NoData == [len |-> -1, fill |-> 0]
Inputs == { [len |-> 0, fill |-> 0], [len |-> 5, fill |-> 5],
            [len |-> 200, fill |-> -1] }

\* number of cache lines of a block that hold payload bytes, the payload
\* starting SizeofHeader bytes into the first line
LinesOf(len) ==
  IF len <= 0 THEN 0 ELSE ((SizeofHeader + len - 1) \div kCacheLineSize) + 1

\* what a consumer must receive for record id with payload d
Expected(id, d) ==
  [len |-> d.len, pieces |-> [j \in 1..LinesOf(d.len) |-> <<id, j - 1>>]]

EmptyBuffer == [len |-> 0, pieces |-> <<>>]

VARIABLES
  head_, tail_, read_,   \* std::atomic<size_t> cursors of MpmcQueue
  data_,                 \* uint8_t data_[kCapacity], per cache line
  beyond,                \* the memory behind data_[kCapacity]
  oob,                   \* an access behind data_[kCapacity] happened
  aborted,               \* a CHECK of get_header failed
  num_pushs_, num_pops_, \* std::atomic<size_t> counters of MpmcQueue
  vpc,                   \* position of each thread in its MpmcQueue call
  vloc,                  \* locals of each thread's call
  buffer,                \* the std::vector<uint8_t> each consumer pops into
  sent,                  \* history: payload of record id, in head_ order
  accepted,              \* history: ids whose try_push returned true
  received,              \* history: bag of the buffers filled by try_pop
  entry                  \* history: what each thread saw when its call began

varVars == <<head_, tail_, read_, data_, beyond, oob, aborted, num_pushs_,
             num_pops_, vpc, vloc, buffer, sent, accepted, received, entry>>

(***************************************************************************)
(* sham::mpmc::Queue<T, kCapacity>: constants, helpers and state.          *)
(***************************************************************************)
kInternalCapacity == QueueCapacity + 1

\* capacity()
capacity == QueueCapacity

\* Queue::idx and Queue::turn
Queue_idx(i) == i % kInternalCapacity

Queue_turn(i) == i \div kInternalCapacity

\* the threads that use the Queue
Workers == Producers \cup Consumers

\* a slot's storage before any construct, and after destroy
NoValue == <<0, 0>>
Destroyed == <<0, -1>>

VARIABLES
  slots_,                \* Slot<T> slots_[kInternalCapacity]: turn, storage
  q_head_, q_tail_,      \* std::atomic<size_t> head_, tail_ of Queue
  fpc,                   \* position of each thread in its Queue call
  floc,                  \* locals of each thread's call
  element,               \* the T& v each consumer pops into
  num_operations,        \* result->num_operations of each thread
  num_popped_elements_,  \* std::atomic<size_t> of Benchmark
  pushReturned,          \* history: values whose push returned
  ticketOf,              \* history: <<head ticket, value>> of each producer
  precede,               \* history: <<a, b>>: push(a) returned before
                         \* push(b) was invoked
  got,                   \* history: what each consumer received, in order
  sawFull,               \* history: head - tail = capacity() held at some
                         \* moment of the try_push call in progress,
                         \* before the call took a head ticket of its own
  fentry                 \* history: the queue and the out argument as a
                         \* try_push or try_pop found them, kept while the
                         \* call has no ticket and no other thread is in a
                         \* call

fixVars == <<slots_, q_head_, q_tail_, fpc, floc, element, num_operations,
             num_popped_elements_, pushReturned, ticketOf, precede, got,
             sawFull, fentry>>

(***************************************************************************)
(* The state of the callers outside the two queues: the locals of the test *)
(* MpmcQueueTest.QueueCapacityLimit, mpmc_var_test.cpp lines 52-69.        *)
(***************************************************************************)
VARIABLES
  data_to_push,          \* std::vector<uint8_t> data_to_push of the test
  pushes,                \* size_t pushes of the test
  tpc                    \* position of the test: in its while loop, or
                         \* behind it

testVars == <<data_to_push, pushes, tpc>>

(***************************************************************************)
(* The named shared memory of the operating system and the                 *)
(* SharedMemoryBuffer of each process.  The bytes of the shared memory     *)
(* object are the variables of the MpmcQueue above: the processes place    *)
(* the queue at offset 0 of the object.                                    *)
(***************************************************************************)
VARIABLES
  platform,              \* the build: "posix", or "win32" (#ifdef _WIN32)
  kBufferSize,           \* the capacity the processes pass to the constructor
  shm,                   \* the operating system's entry for the name
  seg,                   \* the SharedMemoryBuffer object of each process
  sloc                   \* locals of each process: the pointers it was given

segVars == <<platform, kBufferSize, shm, seg, sloc>>

(***************************************************************************)
(* sham::mpmc::LockingQueue<T, kCapacity> (queue_locking.h), the ring      *)
(* under a mutex.  try_emplace and try_pop hold std::lock_guard lk(mutex_) *)
(* from their first statement to their return, so the calls of all         *)
(* threads happen one after the other and each call is one step.           *)
(***************************************************************************)
\* template argument kCapacity of LockingQueue<int, 3>
kLockingCapacity == 3

\* We need one extra slot to distinguish between full and empty.
LockingQueue_kInternalCapacity == kLockingCapacity + 1

VARIABLES
  locking,               \* the LockingQueue: data_, in_, out_
  lcall                  \* the latest call on it and its result; as
                         \* history, the values pushed and not yet popped

lockVars == <<locking, lcall>>

envVars == <<testVars, segVars, lockVars>>

vars == <<varVars, fixVars, envVars>>

ZeroLine == [size |-> 0, body |-> NoPiece]

NoLocals == [data |-> NoData, block_size |-> 0, tail |-> 0, head |-> 0,
             new_head |-> 0, read |-> 0, size |-> 0, new_read |-> 0,
             space_reclaimed |-> 0, caller |-> "none", result |-> "none",
             id |-> 0, value |-> 0]

NoFLocals == [op |-> "none", head |-> 0, tail |-> 0, value |-> NoValue,
              result |-> "none", before |-> {}]

NoSnapshot == [kept |-> FALSE, head |-> 0, tail |-> 0, slots |-> <<>>,
               v |-> NoValue]

NoEntry == [buffer |-> EmptyBuffer, head |-> 0, read |-> 0, tail |-> 0,
            data |-> <<>>, len |-> 0]

\* MpmcQueue::MpmcQueue(): head_(1), tail_(0), read_(0), memset(data_, 0),
\* *reinterpret_cast<int*>(data_) = kReadyToFill
InitQueue ==
  /\ head_ = 1
  /\ tail_ = 0
  /\ read_ = 0
  /\ data_ = [l \in 0..(NumLines - 1) |->
                IF l = 0 THEN [ZeroLine EXCEPT !.size = kReadyToFill]
                ELSE ZeroLine]
  /\ beyond = [l \in 0..(NumBeyond - 1) |-> ZeroLine]
  /\ oob = FALSE
  /\ aborted = FALSE
  /\ num_pushs_ = 0
  /\ num_pops_ = 0
  /\ vloc = [t \in Threads |-> NoLocals]
  /\ buffer = [c \in Consumers |-> EmptyBuffer]
  /\ sent = <<>>
  /\ accepted = {}
  /\ received = EmptyBag
  /\ entry = [t \in Threads |-> NoEntry]

\* Queue::Queue(): head_(0), tail_(0), every slot's turn = {0}; the
\* benchmark's counters start at 0
InitFixQueue ==
  /\ slots_ = [i \in 0..(kInternalCapacity - 1) |->
                [turn |-> 0, storage |-> NoValue]]
  /\ q_head_ = 0
  /\ q_tail_ = 0
  /\ floc = [t \in Workers |-> NoFLocals]
  /\ element = [c \in Consumers |-> NoValue]
  /\ num_operations = [t \in Workers |-> 0]
  /\ num_popped_elements_ = 0
  /\ pushReturned = {}
  /\ ticketOf = {}
  /\ precede = {}
  /\ got = [c \in Consumers |-> <<>>]
  /\ sawFull = [p \in Producers |-> FALSE]
  /\ fentry = [t \in Workers |-> NoSnapshot]

\* the test QueueCapacityLimit does not run
TestUnused ==
  /\ data_to_push = NoData
  /\ pushes = 0
  /\ tpc = "off"

\* a pointer is an address outside every mapping ("abs", nullptr being
\* address 0), or an offset into the view that the process has mapped
nullptr == <<"abs", 0>>

\* MAP_FAILED is (void*)-1
MAP_FAILED == <<"abs", SizeMod - 1>>

\* FileHandle kInvalidFileHandle: -1, or nullptr on Windows
kInvalidFileHandle == "invalid"

\* a SharedMemoryBuffer that is not constructed: the default member
\* initialisers of the class.  type, when, granted, unmapped and unlinked
\* are history: the mode of construction, what the creator had done by
\* then, what the operating system was ready to grant, and what the
\* destructor released.  id, allocs and moved are history as well: the
\* constructor call that handle_ and buffer_ come from, the offset and size
\* of every Allocate that returned a pointer, and whether the object has
\* been moved from
NoSegment ==
  [life |-> "none", type |-> "kInvalid", handle_ |-> kInvalidFileHandle,
   buffer_ |-> nullptr, size_ |-> 0, capacity_ |-> 0,
   when |-> [alive |-> FALSE, pushed |-> FALSE, first |-> FALSE],
   granted |-> [open |-> FALSE, map |-> FALSE],
   unmapped |-> FALSE, unlinked |-> FALSE,
   id |-> <<"none", 0>>, allocs |-> <<>>, moved |-> FALSE]

\* the locals of a process: the queue pointer q it keeps, the last call on
\* its segment (op, its argument, the pointer returned, size_ before it), the result of
\* its call on the queue, and the numbers of its calls
NoSegLocals ==
  [q |-> nullptr, hasq |-> FALSE, op |-> "none", arg |-> 0, ret |-> nullptr,
   before |-> 0, calls |-> 0, qcalls |-> 0, res |-> "none", opens |-> 0]

Procs == {"A", "B"}

\* the SharedMemoryBuffer objects: one of each process, and one to move to
Objects == Procs \cup {"C"}

\* the operating system's entry for the name when nothing is created; as
\* history, the constructor calls that obtained a handle and those that
\* obtained a view, the bags of the views that were unmapped and of the
\* handles that were given to DestroyFileMapping, each named by its
\* constructor call, and the number of moves so far
NoName ==
  [linked |-> FALSE, handles |-> {}, views |-> {}, unmapped |-> EmptyBag,
   destroyed |-> EmptyBag, moves |-> 0]

\* no process uses shared memory
SegUnused ==
  /\ platform = "none"
  /\ kBufferSize = 0
  /\ shm = NoName
  /\ seg = [P \in Objects |-> NoSegment]
  /\ sloc = [P \in Objects |-> NoSegLocals]

\* LockingQueue(): T data_[kInternalCapacity] of int is not initialised,
\* size_t in_ = 0, size_t out_ = 0
NoLockingQueue ==
  [data_ |-> [i \in 0..(LockingQueue_kInternalCapacity - 1) |->
                "indeterminate"],
   in_ |-> 0, out_ |-> 0]

\* no call is made yet: held are the values pushed and not popped, before
\* is held at the start of the latest call, v the argument of the call
\* after it, and calls the number of calls
NoLockCall ==
  [op |-> "none", res |-> FALSE, v |-> "indeterminate", before |-> <<>>,
   held |-> <<>>, calls |-> 0]

\* no thread uses the LockingQueue
LockUnused ==
  /\ locking = NoLockingQueue
  /\ lcall = NoLockCall

\* no thread uses the Queue
FixUnused == InitFixQueue /\ fpc = [t \in Workers |-> "off"]

\* no thread uses the MpmcQueue
VarUnused == InitQueue /\ vpc = [t \in Threads |-> "off"]

\* the threads of one team are started, the others never run
InitVar ==
  /\ FixUnused
  /\ TestUnused
  /\ SegUnused
  /\ LockUnused
  /\ InitQueue
  /\ \E team \in Teams :
       vpc = [t \in Threads |-> IF t \in team THEN "idle" ELSE "off"]

\* every thread may call, one call at a time
InitVarSeq ==
  /\ FixUnused
  /\ TestUnused
  /\ SegUnused
  /\ LockUnused
  /\ InitQueue
  /\ vpc = [t \in Threads |-> "idle"]

(***************************************************************************)
(* Memory accesses of MpmcQueue.                                           *)
(***************************************************************************)
LineOf(offset) == offset \div kCacheLineSize

\* header->size.load() for the header addressed by index
HeaderSize(index) == data_[LineOf(get_header(index))].size

\* header->size.store(v)
StoreHeader(mem, index, v) ==
  [mem EXCEPT ![LineOf(get_header(index))].size = v]

\* the cache line that memcpy reaches j lines after the header's line:
\* the pointer header + 1 is not wrapped at data_ + kCapacity
PayloadLine(index, j) == LineOf(get_header(index)) + j

\* std::memcpy(header + 1, data.data(), data.size()): the lines inside data_
WritePayload(mem, index, id, d) ==
  [l \in DOMAIN mem |->
     LET j == l - LineOf(get_header(index)) IN
       IF j >= 0 /\ j < LinesOf(d.len)
         THEN IF j = 0 THEN [mem[l] EXCEPT !.body = <<id, 0>>]
              ELSE [size |-> d.fill, body |-> <<id, j>>]
         ELSE mem[l]]

\* the same memcpy: the lines behind data_[kCapacity]
WriteBeyond(bey, index, id, d) ==
  [k \in DOMAIN bey |->
     LET j == (k + NumLines) - LineOf(get_header(index)) IN
       IF j >= 0 /\ j < LinesOf(d.len)
         THEN IF j = 0 THEN [bey[k] EXCEPT !.body = <<id, 0>>]
              ELSE [size |-> d.fill, body |-> <<id, j>>]
         ELSE bey[k]]

\* does a payload of len bytes after the header at index leave data_?
LeavesRing(index, len) ==
  LinesOf(len) > 0 /\ PayloadLine(index, LinesOf(len) - 1) >= NumLines

\* std::memcpy(buffer.data(), header + 1, size): the piece read from the
\* j-th line; a line behind data_[kCapacity] yields what was stored there
\* or, when stale is TRUE, anything else
ReadPiece(index, j, stale) ==
  LET l == PayloadLine(index, j) IN
    IF l < NumLines THEN data_[l].body
    ELSE IF stale \/ l - NumLines >= NumBeyond THEN Garbage
    ELSE beyond[l - NumLines].body

ReadPayload(index, size, stale) ==
  [len |-> size,
   pieces |-> [j \in 1..LinesOf(size) |-> ReadPiece(index, j - 1, stale)]]

\* C12, a faulty variant: the space test forgets the block to be added
TooFull_NoBlock(head, block_size, tail) ==
  (head + SizeofHeader - tail) % SizeMod > kCapacity

\* C9, a faulty variant: the space test forgets the header of the following block
TooFull_NoHeader(head, block_size, tail) ==
  (head + block_size - tail) % SizeMod > kCapacity

\* the free-space test of try_push, line 56
TooFull(head, block_size, tail) ==
  (head + block_size + SizeofHeader - tail) % SizeMod > kCapacity

InPush(t) == vpc[t] \in {"push_tail", "push_head", "push_cas"}
             \/ (vpc[t] \in {"shrink_tail", "shrink_size", "shrink_cas"}
                 /\ vloc[t].caller = "push")

(***************************************************************************)
(* MpmcQueue::shrink, lines 110-126.  It is called by try_push, try_pop    *)
(* and size; caller names the place it returns to.                         *)
(***************************************************************************)
\* the call returns res; ret is "done" where the caller looks at the result
\* in a step of its own, and "idle" where it goes on at once
Finish(t, res, ret) ==
  /\ vpc' = [vpc EXCEPT ![t] = ret]
  /\ vloc' = [vloc EXCEPT ![t] =
       IF ret = "done" THEN [NoLocals EXCEPT !.result = res] ELSE NoLocals]

\* the statement after the call of shrink, with its return value
AfterShrink(t, reclaimed, ret) ==
  CASE vloc[t].caller = "push" ->
         \* line 58: if (shrink()) continue; return false;
         IF reclaimed > 0
           THEN /\ vpc' = [vpc EXCEPT ![t] = "push_tail"]
                /\ vloc' = [vloc EXCEPT ![t].space_reclaimed = 0,
                                        ![t].caller = "none",
                                        ![t].tail = 0, ![t].size = 0]
           ELSE Finish(t, "false", ret)
    [] vloc[t].caller = "pop" ->
         \* line 102-105: return true
         Finish(t, "true", ret)
    [] OTHER ->
         \* size(), line 156
         /\ vpc' = [vpc EXCEPT ![t] = "size_head"]
         /\ vloc' = [vloc EXCEPT ![t] = [NoLocals EXCEPT !.caller = "size"]]

\* C14, a faulty variant: shrink reclaims nothing
ShrinkStops_Always(size) == TRUE

\* C5, a faulty variant: shrink stops only at a published header and reclaims a block
\* that is reserved and not yet published
ShrinkStops_Positive(size) == size > 0

\* line 117: if (size >= 0) break;
ShrinkStops(size) == size >= 0

\* the new tail of line 118
ShrinkNewTail(tail, size) ==
  (tail + align_to_cache_line((SizeofHeader - size) % SizeMod)) % SizeMod

\* line 114: size_t tail = tail_.load(acquire)
ShrinkLoadTail(t) ==
  /\ ~aborted
  /\ vpc[t] = "shrink_tail"
  /\ vloc' = [vloc EXCEPT ![t].tail = tail_]
  /\ vpc' = [vpc EXCEPT ![t] = "shrink_size"]
  /\ UNCHANGED <<head_, tail_, read_, data_, beyond, oob, aborted, num_pushs_,
                 num_pops_, buffer, sent, accepted, received, entry>>
  /\ UNCHANGED <<fixVars, envVars>>

\* lines 115-117: get_header(tail); size = header->size.load(); break if >= 0
ShrinkLoadSize(t, ret) ==
  /\ ~aborted
  /\ vpc[t] = "shrink_size"
  /\ IF ~get_header_CHECK(vloc[t].tail)
       THEN /\ aborted' = TRUE
            /\ UNCHANGED <<vpc, vloc>>
       ELSE /\ UNCHANGED aborted
            /\ IF ShrinkStops(HeaderSize(vloc[t].tail))
                 THEN AfterShrink(t, vloc[t].space_reclaimed, ret)
                 ELSE /\ vloc' = [vloc EXCEPT
                                    ![t].size = HeaderSize(vloc[t].tail)]
                      /\ vpc' = [vpc EXCEPT ![t] = "shrink_cas"]
  /\ UNCHANGED <<head_, tail_, read_, data_, beyond, oob, num_pushs_,
                 num_pops_, buffer, sent, accepted, received, entry>>
  /\ UNCHANGED <<fixVars, envVars>>

\* lines 118-123: tail_.compare_exchange_strong(tail, new_tail)
ShrinkCas(t, ret) ==
  /\ ~aborted
  /\ vpc[t] = "shrink_cas"
  /\ LET new_tail == ShrinkNewTail(vloc[t].tail, vloc[t].size) IN
       IF tail_ = vloc[t].tail
         THEN /\ tail_' = new_tail
              /\ vloc' = [vloc EXCEPT
                   ![t].space_reclaimed = @ + (new_tail - vloc[t].tail),
                   ![t].size = 0]
              /\ vpc' = [vpc EXCEPT ![t] = "shrink_tail"]
         ELSE /\ UNCHANGED tail_
              /\ AfterShrink(t, vloc[t].space_reclaimed, ret)
  /\ UNCHANGED <<head_, read_, data_, beyond, oob, aborted, num_pushs_,
                 num_pops_, buffer, sent, accepted, received, entry>>
  /\ UNCHANGED <<fixVars, envVars>>

(***************************************************************************)
(* MpmcQueue::try_push, lines 49-79.                                       *)
(***************************************************************************)
\* the call, lines 51 and 54: block_size, then the first load of tail_.
\* data is the caller's span; max bounds the accepted records of a
\* behaviour, snap records what the caller could observe before the call
PushBegin(p, inputs, max, snap) ==
  /\ ~aborted
  /\ vpc[p] = "idle"
  /\ num_pushs_ + Cardinality({q \in Producers : InPush(q)}) < max
  /\ \E d \in inputs :
       LET block_size == align_to_cache_line(d.len + SizeofHeader) IN
         /\ vloc' = [vloc EXCEPT ![p] = [NoLocals EXCEPT
                       !.data = d, !.block_size = block_size,
                       !.tail = tail_]]
         /\ entry' = [entry EXCEPT ![p] =
              IF snap
                THEN [NoEntry EXCEPT
                        !.head = head_, !.read = read_, !.tail = tail_,
                        !.data = data_, !.len = d.len]
                ELSE NoEntry]
  /\ vpc' = [vpc EXCEPT ![p] = "push_head"]
  /\ UNCHANGED <<head_, tail_, read_, data_, beyond, oob, aborted, num_pushs_,
                 num_pops_, buffer, sent, accepted, received>>
  /\ UNCHANGED <<fixVars, envVars>>

\* line 54 in a later round of the loop: size_t tail = tail_.load(acquire)
PushLoadTail(p) ==
  /\ ~aborted
  /\ vpc[p] = "push_tail"
  /\ vloc' = [vloc EXCEPT ![p].tail = tail_]
  /\ vpc' = [vpc EXCEPT ![p] = "push_head"]
  /\ UNCHANGED <<head_, tail_, read_, data_, beyond, oob, aborted, num_pushs_,
                 num_pops_, buffer, sent, accepted, received, entry>>
  /\ UNCHANGED <<fixVars, envVars>>

\* lines 55-64: head = head_.load(acquire) & mask; the free-space test;
\* new_head = head + block_size; head = head + 1
PushLoadHead(p) ==
  /\ ~aborted
  /\ vpc[p] = "push_head"
  /\ LET head == BitAnd(head_, mask) IN
       IF TooFull(head, vloc[p].block_size, vloc[p].tail)
         THEN /\ vloc' = [vloc EXCEPT ![p].caller = "push",
                                      ![p].space_reclaimed = 0,
                                      ![p].tail = 0]
              /\ vpc' = [vpc EXCEPT ![p] = "shrink_tail"]
         ELSE /\ vloc' = [vloc EXCEPT
                   ![p].new_head = (head + vloc[p].block_size) % SizeMod,
                   ![p].head = head + 1,
                   ![p].tail = 0]
              /\ vpc' = [vpc EXCEPT ![p] = "push_cas"]
  /\ UNCHANGED <<head_, tail_, read_, data_, beyond, oob, aborted, num_pushs_,
                 num_pops_, buffer, sent, accepted, received, entry>>
  /\ UNCHANGED <<fixVars, envVars>>

\* C30, a faulty variant: the CAS does not look at the stabilising bit
PushCas_AnyBit(p) ==
  /\ ~aborted
  /\ vpc[p] = "push_cas"
  /\ IF BitAnd(head_, mask) = BitAnd(vloc[p].head, mask)
       THEN /\ head_' = vloc[p].new_head
            /\ num_pushs_' = num_pushs_ + 1
            /\ sent' = Append(sent, vloc[p].data)
            /\ vloc' = [vloc EXCEPT ![p].id = num_pushs_ + 1]
            /\ vpc' = [vpc EXCEPT ![p] = "push_zero"]
       ELSE /\ vloc' = [vloc EXCEPT ![p].head = 0, ![p].new_head = 0]
            /\ vpc' = [vpc EXCEPT ![p] = "push_tail"]
            /\ UNCHANGED <<head_, num_pushs_, sent>>
  /\ UNCHANGED <<tail_, read_, data_, beyond, oob, aborted, num_pops_,
                 buffer, accepted, received, entry>>
  /\ UNCHANGED <<fixVars, envVars>>

\* lines 65-66: head_.compare_exchange_strong(head, new_head); ++num_pushs_.
\* No other producer's CAS succeeds before line 70, so the counter is
\* incremented in the order of the CAS.
PushCas(p) ==
  /\ ~aborted
  /\ vpc[p] = "push_cas"
  /\ IF head_ = vloc[p].head
       THEN /\ head_' = vloc[p].new_head
            /\ num_pushs_' = num_pushs_ + 1
            /\ sent' = Append(sent, vloc[p].data)
            /\ vloc' = [vloc EXCEPT ![p].id = num_pushs_ + 1]
            /\ vpc' = [vpc EXCEPT ![p] = "push_zero"]
       ELSE /\ vloc' = [vloc EXCEPT ![p].head = 0, ![p].new_head = 0]
            /\ vpc' = [vpc EXCEPT ![p] = "push_tail"]
            /\ UNCHANGED <<head_, num_pushs_, sent>>
  /\ UNCHANGED <<tail_, read_, data_, beyond, oob, aborted, num_pops_,
                 buffer, accepted, received, entry>>
  /\ UNCHANGED <<fixVars, envVars>>

\* C29, a faulty variant: the header behind the block is left as it is
PushZeroNext_Skip(p) ==
  /\ ~aborted
  /\ vpc[p] = "push_zero"
  /\ vpc' = [vpc EXCEPT ![p] = "push_stab"]
  /\ UNCHANGED <<head_, tail_, read_, data_, beyond, oob, aborted,
                 num_pushs_, num_pops_, vloc, buffer, sent, accepted,
                 received, entry>>
  /\ UNCHANGED <<fixVars, envVars>>

\* lines 68-69: next_header = get_header(new_head); next_header->size = 0
PushZeroNext(p) ==
  /\ ~aborted
  /\ vpc[p] = "push_zero"
  /\ IF ~get_header_CHECK(vloc[p].new_head)
       THEN /\ aborted' = TRUE
            /\ UNCHANGED <<data_, vpc>>
       ELSE /\ data_' = StoreHeader(data_, vloc[p].new_head, 0)
            /\ vpc' = [vpc EXCEPT ![p] = "push_stab"]
            /\ UNCHANGED aborted
  /\ UNCHANGED <<head_, tail_, read_, beyond, oob, num_pushs_, num_pops_,
                 vloc, buffer, sent, accepted, received, entry>>
  /\ UNCHANGED <<fixVars, envVars>>

\* line 70: head_.store(new_head + 1, release)
PushStabilise(p) ==
  /\ ~aborted
  /\ vpc[p] = "push_stab"
  /\ head_' = (vloc[p].new_head + 1) % SizeMod
  /\ vpc' = [vpc EXCEPT ![p] = "push_copy"]
  /\ UNCHANGED <<tail_, read_, data_, beyond, oob, aborted, num_pushs_,
                 num_pops_, vloc, buffer, sent, accepted, received, entry>>
  /\ UNCHANGED <<fixVars, envVars>>

\* lines 72-73: header = get_header(head); memcpy(header + 1, data, size)
PushCopy(p) ==
  /\ ~aborted
  /\ vpc[p] = "push_copy"
  /\ IF ~get_header_CHECK(vloc[p].head)
       THEN /\ aborted' = TRUE
            /\ UNCHANGED <<data_, beyond, oob, vpc>>
       ELSE /\ data_' = WritePayload(data_, vloc[p].head, vloc[p].id,
                                     vloc[p].data)
            /\ beyond' = WriteBeyond(beyond, vloc[p].head, vloc[p].id,
                                     vloc[p].data)
            /\ oob' = (oob \/ LeavesRing(vloc[p].head, vloc[p].data.len))
            /\ vpc' = [vpc EXCEPT ![p] = "push_publish"]
            /\ UNCHANGED aborted
  /\ UNCHANGED <<head_, tail_, read_, num_pushs_, num_pops_, vloc, buffer,
                 sent, accepted, received, entry>>
  /\ UNCHANGED <<fixVars, envVars>>

\* lines 75-76: header->size.store(data.size(), release); return true
PushPublish(p, ret) ==
  /\ ~aborted
  /\ vpc[p] = "push_publish"
  /\ data_' = StoreHeader(data_, vloc[p].head, vloc[p].data.len)
  /\ accepted' = accepted \cup {vloc[p].id}
  /\ Finish(p, "true", ret)
  /\ UNCHANGED <<head_, tail_, read_, beyond, oob, aborted, num_pushs_,
                 num_pops_, buffer, sent, received, entry>>
  /\ UNCHANGED <<fixVars, envVars>>

(***************************************************************************)
(* MpmcQueue::try_pop, lines 81-108.                                       *)
(***************************************************************************)
\* the call and lines 82-83: size_t read = read_.load(acquire);
\* header = get_header(read)
PopBegin(c, snap) ==
  /\ ~aborted
  /\ vpc[c] = "idle"
  /\ IF ~get_header_CHECK(read_)
       THEN /\ aborted' = TRUE
            /\ UNCHANGED <<vpc, vloc, entry>>
       ELSE /\ vloc' = [vloc EXCEPT ![c] = [NoLocals EXCEPT !.read = read_]]
            /\ vpc' = [vpc EXCEPT ![c] = "pop_spin"]
            /\ entry' = [entry EXCEPT ![c] =
                 IF snap
                   THEN [NoEntry EXCEPT
                           !.buffer = buffer[c], !.head = head_,
                           !.read = read_, !.tail = tail_, !.data = data_]
                   ELSE NoEntry]
            /\ UNCHANGED aborted
  /\ UNCHANGED <<head_, tail_, read_, data_, beyond, oob, num_pushs_,
                 num_pops_, buffer, sent, accepted, received>>
  /\ UNCHANGED <<fixVars, envVars>>

\* lines 85-86: while (head_.load(acquire) == read) ;
PopSpin(c) ==
  /\ ~aborted
  /\ vpc[c] = "pop_spin"
  /\ IF head_ = vloc[c].read
       THEN UNCHANGED vpc
       ELSE vpc' = [vpc EXCEPT ![c] = "pop_size"]
  /\ UNCHANGED <<head_, tail_, read_, data_, beyond, oob, aborted, num_pushs_,
                 num_pops_, vloc, buffer, sent, accepted, received, entry>>
  /\ UNCHANGED <<fixVars, envVars>>

\* C10, a faulty variant: only a tombstone makes try_pop return false
PopNothing_Negative(size) == size < 0

\* line 93: if (size <= 0) return false;
PopNothing(size) == size <= 0

\* line 94: new_read = read + align_to_cache_line(size + sizeof(Header))
PopNewRead(read, size) ==
  (read + align_to_cache_line((size + SizeofHeader) % SizeMod)) % SizeMod

\* lines 87-94: int size = header->size.load(acquire);
\* if (size <= 0) return false; new_read = read + align(size + sizeof(Header))
PopLoadSize(c, ret) ==
  /\ ~aborted
  /\ vpc[c] = "pop_size"
  /\ LET size == HeaderSize(vloc[c].read) IN
       IF PopNothing(size)
         THEN Finish(c, "false", ret)
         ELSE /\ vloc' = [vloc EXCEPT
                   ![c].size = size,
                   ![c].new_read = PopNewRead(vloc[c].read, size)]
              /\ vpc' = [vpc EXCEPT ![c] = "pop_cas"]
  /\ UNCHANGED <<head_, tail_, read_, data_, beyond, oob, aborted, num_pushs_,
                 num_pops_, buffer, sent, accepted, received, entry>>
  /\ UNCHANGED <<fixVars, envVars>>

\* lines 95-96 and 107: read_.compare_exchange_strong(read, new_read);
\* ++num_pops_; a lost CAS returns false
PopCas(c, ret) ==
  /\ ~aborted
  /\ vpc[c] = "pop_cas"
  /\ IF read_ = vloc[c].read
       THEN /\ read_' = vloc[c].new_read
            /\ num_pops_' = num_pops_ + 1
            /\ vpc' = [vpc EXCEPT ![c] = "pop_copy"]
            /\ UNCHANGED vloc
       ELSE /\ Finish(c, "false", ret)
            /\ UNCHANGED <<read_, num_pops_>>
  /\ UNCHANGED <<head_, tail_, data_, beyond, oob, aborted, num_pushs_,
                 buffer, sent, accepted, received, entry>>
  /\ UNCHANGED <<fixVars, envVars>>

\* lines 98-99: buffer.resize(size); memcpy(buffer.data(), header + 1, size)
PopCopy(c) ==
  /\ ~aborted
  /\ vpc[c] = "pop_copy"
  /\ \E stale \in {FALSE, LeavesRing(vloc[c].read, vloc[c].size)} :
       LET b == ReadPayload(vloc[c].read, vloc[c].size, stale) IN
         /\ buffer' = [buffer EXCEPT ![c] = b]
         /\ received' = received (+) SetToBag({b})
  /\ oob' = (oob \/ LeavesRing(vloc[c].read, vloc[c].size))
  /\ vpc' = [vpc EXCEPT ![c] = "pop_tomb"]
  /\ UNCHANGED <<head_, tail_, read_, data_, beyond, aborted, num_pushs_,
                 num_pops_, vloc, sent, accepted, entry>>
  /\ UNCHANGED <<fixVars, envVars>>

\* lines 101-102: header->size.store(-size, release); shrink()
PopTombstone(c) ==
  /\ ~aborted
  /\ vpc[c] = "pop_tomb"
  /\ data_' = StoreHeader(data_, vloc[c].read, -vloc[c].size)
  /\ vloc' = [vloc EXCEPT ![c] = [NoLocals EXCEPT !.caller = "pop"]]
  /\ vpc' = [vpc EXCEPT ![c] = "shrink_tail"]
  /\ UNCHANGED <<head_, tail_, read_, beyond, oob, aborted, num_pushs_,
                 num_pops_, buffer, sent, accepted, received, entry>>
  /\ UNCHANGED <<fixVars, envVars>>

(***************************************************************************)
(* MpmcQueue::size, lines 153-157.                                         *)
(***************************************************************************)
\* line 156 as the compiler parses it: '-' binds tighter than '&'
SizeExpr(head, tail) == BitAnd(head, (mask - tail) % SizeMod)

\* line 154: shrink()
SizeBegin(t) ==
  /\ ~aborted
  /\ vpc[t] = "idle"
  /\ vloc' = [vloc EXCEPT ![t] = [NoLocals EXCEPT !.caller = "size"]]
  /\ vpc' = [vpc EXCEPT ![t] = "shrink_tail"]
  /\ UNCHANGED <<head_, tail_, read_, data_, beyond, oob, aborted, num_pushs_,
                 num_pops_, buffer, sent, accepted, received, entry>>
  /\ UNCHANGED <<fixVars, envVars>>

\* line 156: the first of the two loads; the order of the operands'
\* evaluation is unspecified
SizeLoadFirst(t) ==
  /\ ~aborted
  /\ vpc[t] = "size_head"
  /\ \/ /\ vloc' = [vloc EXCEPT ![t].head = head_, ![t].caller = "size_h"]
     \/ /\ vloc' = [vloc EXCEPT ![t].tail = tail_, ![t].caller = "size_t"]
  /\ vpc' = [vpc EXCEPT ![t] = "size_second"]
  /\ UNCHANGED <<head_, tail_, read_, data_, beyond, oob, aborted, num_pushs_,
                 num_pops_, buffer, sent, accepted, received, entry>>
  /\ UNCHANGED <<fixVars, envVars>>

\* line 156: the second load and the result
SizeLoadSecond(t, ret) ==
  /\ ~aborted
  /\ vpc[t] = "size_second"
  /\ LET h == IF vloc[t].caller = "size_h" THEN vloc[t].head ELSE head_
         tl == IF vloc[t].caller = "size_t" THEN vloc[t].tail ELSE tail_
     IN /\ vpc' = [vpc EXCEPT ![t] = ret]
        /\ vloc' = [vloc EXCEPT ![t] =
             IF ret = "done"
               THEN [NoLocals EXCEPT !.result = "size",
                                     !.value = SizeExpr(h, tl)]
               ELSE NoLocals]
  /\ UNCHANGED <<head_, tail_, read_, data_, beyond, oob, aborted, num_pushs_,
                 num_pops_, buffer, sent, accepted, received, entry>>
  /\ UNCHANGED <<fixVars, envVars>>

\* the call has returned; the caller goes on
Return(t) ==
  /\ ~aborted
  /\ vpc[t] = "done"
  /\ vpc' = [vpc EXCEPT ![t] = "idle"]
  /\ vloc' = [vloc EXCEPT ![t] = NoLocals]
  /\ entry' = [entry EXCEPT ![t] = NoEntry]
  /\ UNCHANGED <<head_, tail_, read_, data_, beyond, oob, aborted, num_pushs_,
                 num_pops_, buffer, sent, accepted, received>>
  /\ UNCHANGED <<fixVars, envVars>>

(***************************************************************************)
(* Specifications of MpmcQueue.                                            *)
(***************************************************************************)
\* producers call try_push, consumers call try_pop and size, in any
\* interleaving
NextVar ==
  \/ \E p \in Producers : PushBegin(p, Inputs, MaxPushConc, FALSE)
  \/ \E p \in Producers : PushLoadTail(p)
  \/ \E p \in Producers : PushLoadHead(p)
  \/ \E p \in Producers : PushCas(p)
  \/ \E p \in Producers : PushZeroNext(p)
  \/ \E p \in Producers : PushStabilise(p)
  \/ \E p \in Producers : PushCopy(p)
  \/ \E p \in Producers : PushPublish(p, "idle")
  \/ \E t \in Threads : ShrinkLoadTail(t)
  \/ \E t \in Threads : ShrinkLoadSize(t, "idle")
  \/ \E t \in Threads : ShrinkCas(t, "idle")
  \/ \E c \in Consumers : PopBegin(c, FALSE)
  \/ \E c \in Consumers : PopSpin(c)
  \/ \E c \in Consumers : PopLoadSize(c, "idle")
  \/ \E c \in Consumers : PopCas(c, "idle")
  \/ \E c \in Consumers : PopCopy(c)
  \/ \E c \in Consumers : PopTombstone(c)
  \/ \E o \in Observers : SizeBegin(o)
  \/ \E o \in Observers : SizeLoadFirst(o)
  \/ \E o \in Observers : SizeLoadSecond(o, "idle")

SpecVar == InitVar /\ [][NextVar]_vars

\* no other thread is inside a call: the calls run one after the other
Solo(t) == \A u \in Threads \ {t} : vpc[u] \in {"idle", "off"}

\* Line 54 is not reached a second time when calls do not overlap (no CAS
\* on head_ is lost, and the shrink of try_push finds nothing that the
\* shrink of the preceding try_pop left), so PushLoadTail is no step here.
NextVarSeq ==
  \/ \E p \in Producers : Solo(p) /\ PushBegin(p, Inputs, MaxPushSeq, TRUE)
  \/ \E p \in Producers : Solo(p) /\ PushLoadHead(p)
  \/ \E p \in Producers : Solo(p) /\ PushCas(p)
  \/ \E p \in Producers : Solo(p) /\ PushZeroNext(p)
  \/ \E p \in Producers : Solo(p) /\ PushStabilise(p)
  \/ \E p \in Producers : Solo(p) /\ PushCopy(p)
  \/ \E p \in Producers : Solo(p) /\ PushPublish(p, "done")
  \/ \E t \in Threads : Solo(t) /\ ShrinkLoadTail(t)
  \/ \E t \in Threads : Solo(t) /\ ShrinkLoadSize(t, "done")
  \/ \E t \in Threads : Solo(t) /\ ShrinkCas(t, "done")
  \/ \E c \in Consumers : Solo(c) /\ PopBegin(c, TRUE)
  \/ \E c \in Consumers : Solo(c) /\ PopSpin(c)
  \/ \E c \in Consumers : Solo(c) /\ PopLoadSize(c, "done")
  \/ \E c \in Consumers : Solo(c) /\ PopCas(c, "done")
  \/ \E c \in Consumers : Solo(c) /\ PopCopy(c)
  \/ \E c \in Consumers : Solo(c) /\ PopTombstone(c)
  \/ \E o \in Observers : Solo(o) /\ SizeBegin(o)
  \/ \E o \in Observers : Solo(o) /\ SizeLoadFirst(o)
  \/ \E o \in Observers : Solo(o) /\ SizeLoadSecond(o, "done")
  \/ \E t \in Threads : Solo(t) /\ Return(t)

SpecVarSeq == InitVarSeq /\ [][NextVarSeq]_vars

\* no producer is inside try_push
NoPush == \A q \in Producers : vpc[q] \in {"idle", "off"}

\* producers and consumers are started, the observer is not
InitVarIso ==
  /\ FixUnused
  /\ TestUnused
  /\ SegUnused
  /\ LockUnused
  /\ InitQueue
  /\ vpc = [t \in Threads |-> IF t \in Observers THEN "off" ELSE "idle"]

\* the consumers interleave with each other; no thread takes a step while
\* a try_push runs, wherever in try_pop or shrink it stands
NextVarIso ==
  \/ \E p \in Producers :
       NoPush /\ PushBegin(p, Inputs, MaxPushConc, TRUE)
  \/ \E p \in Producers : PushLoadTail(p)
  \/ \E p \in Producers : PushLoadHead(p)
  \/ \E p \in Producers : PushCas(p)
  \/ \E p \in Producers : PushZeroNext(p)
  \/ \E p \in Producers : PushStabilise(p)
  \/ \E p \in Producers : PushCopy(p)
  \/ \E p \in Producers : PushPublish(p, "done")
  \/ \E p \in Producers : ShrinkLoadTail(p)
  \/ \E p \in Producers : ShrinkLoadSize(p, "done")
  \/ \E p \in Producers : ShrinkCas(p, "done")
  \/ \E p \in Producers : Return(p)
  \/ \E c \in Consumers : NoPush /\ PopBegin(c, FALSE)
  \/ \E c \in Consumers : NoPush /\ PopSpin(c)
  \/ \E c \in Consumers : NoPush /\ PopLoadSize(c, "idle")
  \/ \E c \in Consumers : NoPush /\ PopCas(c, "idle")
  \/ \E c \in Consumers : NoPush /\ PopCopy(c)
  \/ \E c \in Consumers : NoPush /\ PopTombstone(c)
  \/ \E c \in Consumers : NoPush /\ ShrinkLoadTail(c)
  \/ \E c \in Consumers : NoPush /\ ShrinkLoadSize(c, "idle")
  \/ \E c \in Consumers : NoPush /\ ShrinkCas(c, "idle")

SpecVarIso == InitVarIso /\ [][NextVarIso]_vars

(***************************************************************************)
(* MpmcQueueTest.QueueCapacityLimit, mpmc_var_test.cpp lines 52-69: one    *)
(* thread pushes data_to_push until try_push returns false, counts the     *)
(* accepted records in pushes, and pushes again.  Here the length of       *)
(* data_to_push is any of FillInputs, the thread goes on pushing after the *)
(* first false, and from then on a consumer calls try_pop.                 *)
(***************************************************************************)
\* the thread that runs the test, and the thread that pops
TestThread == 1

TestPopper == NumProducers + 1

\* line 56: std::vector<uint8_t> data_to_push(128, 42), for several lengths;
\* the longest one fits no ring of kCapacity bytes
FillInputs == Inputs \cup {[len |-> kCapacity - 112, fill |-> -1]}

InitVarFill ==
  /\ FixUnused
  /\ InitQueue
  /\ vpc = [t \in Threads |->
             IF t \in {TestThread, TestPopper} THEN "idle" ELSE "off"]
  /\ SegUnused
  /\ LockUnused
  /\ data_to_push \in FillInputs
  /\ pushes = 0
  /\ tpc = "loop"

\* the records that the test may have accepted in a behaviour: one more
\* than the ring has cache lines, so that the loop always meets a full ring
MaxPushFill == NumLines + 1

\* lines 59 and 68: queue.try_push(data_to_push)
TestTryPush(p) ==
  /\ tpc \in {"loop", "after"}
  /\ PushBegin(p, {data_to_push}, MaxPushFill, FALSE)

\* lines 59-60: while (queue.try_push(data_to_push)) ++pushes;
TestCount(p) ==
  /\ ~aborted
  /\ tpc = "loop"
  /\ vpc[p] = "done"
  /\ vloc[p].result = "true"
  /\ pushes' = pushes + 1
  /\ vpc' = [vpc EXCEPT ![p] = "idle"]
  /\ vloc' = [vloc EXCEPT ![p] = NoLocals]
  /\ UNCHANGED <<head_, tail_, read_, data_, beyond, oob, aborted, num_pushs_,
                 num_pops_, buffer, sent, accepted, received, entry>>
  /\ UNCHANGED <<data_to_push, tpc>>
  /\ UNCHANGED <<fixVars, segVars, lockVars>>

\* line 59: try_push has returned false and the loop ends
TestLoopEnd(p) ==
  /\ ~aborted
  /\ tpc = "loop"
  /\ vpc[p] = "done"
  /\ vloc[p].result = "false"
  /\ tpc' = "after"
  /\ vpc' = [vpc EXCEPT ![p] = "idle"]
  /\ vloc' = [vloc EXCEPT ![p] = NoLocals]
  /\ UNCHANGED <<head_, tail_, read_, data_, beyond, oob, aborted, num_pushs_,
                 num_pops_, buffer, sent, accepted, received, entry>>
  /\ UNCHANGED <<data_to_push, pushes>>
  /\ UNCHANGED <<fixVars, segVars, lockVars>>

\* line 68: EXPECT_FALSE(queue.try_push(data_to_push)) has looked at the
\* result of a push behind the loop
TestExpect(p) ==
  /\ tpc = "after"
  /\ Return(p)

\* the consumer calls try_pop once the loop of the test has ended
TestTryPop(c) ==
  /\ tpc = "after"
  /\ PopBegin(c, FALSE)

\* the steps of the test's thread
TestSteps(p) ==
  \/ TestTryPush(p)
  \/ PushLoadTail(p)
  \/ PushLoadHead(p)
  \/ PushCas(p)
  \/ PushZeroNext(p)
  \/ PushStabilise(p)
  \/ PushCopy(p)
  \/ PushPublish(p, "done")
  \/ ShrinkLoadTail(p)
  \/ ShrinkLoadSize(p, "done")
  \/ ShrinkCas(p, "done")
  \/ TestCount(p)
  \/ TestLoopEnd(p)
  \/ TestExpect(p)

NextVarFill ==
  \/ TestTryPush(TestThread)
  \/ PushLoadTail(TestThread)
  \/ PushLoadHead(TestThread)
  \/ PushCas(TestThread)
  \/ PushZeroNext(TestThread)
  \/ PushStabilise(TestThread)
  \/ PushCopy(TestThread)
  \/ PushPublish(TestThread, "done")
  \/ ShrinkLoadTail(TestThread)
  \/ ShrinkLoadSize(TestThread, "done")
  \/ ShrinkCas(TestThread, "done")
  \/ TestCount(TestThread)
  \/ TestLoopEnd(TestThread)
  \/ TestExpect(TestThread)
  \/ TestTryPop(TestPopper)
  \/ PopSpin(TestPopper)
  \/ PopLoadSize(TestPopper, "idle")
  \/ PopCas(TestPopper, "idle")
  \/ PopCopy(TestPopper)
  \/ PopTombstone(TestPopper)
  \/ ShrinkLoadTail(TestPopper)
  \/ ShrinkLoadSize(TestPopper, "idle")
  \/ ShrinkCas(TestPopper, "idle")

\* the test's thread is scheduled again and again; nothing is assumed of
\* the consumers
SpecVarFill ==
  /\ InitVarFill
  /\ [][NextVarFill]_vars
  /\ WF_vars(TestSteps(TestThread))

\* in SpecVarSeq no try_push goes round its loop a second time
SeqNeverRetries == \A p \in Producers : vpc[p] # "push_tail"

(***************************************************************************)
(* sham::mpmc::Queue: emplace (push), try_emplace (try_push), pop and      *)
(* try_pop, lines 115-203.  from is the place of the caller that the call  *)
(* is made from.                                                           *)
(***************************************************************************)
\* the history of head - tail = capacity() during the try_push calls, up
\* to the moment at which the call takes its own head ticket or returns
\* false; the last conjunct of every step
TrackFull ==
  sawFull' = [p \in Producers |->
    IF fpc'[p] \in {"idle", "off", "joined"} \/ floc'[p].op # "try_push"
      THEN FALSE
    ELSE IF fpc[p] \in {"construct", "turn_store", "done"} THEN sawFull[p]
    ELSE \/ sawFull[p]
         \/ q_head_ - q_tail_ = capacity
         \/ /\ fpc'[p] \in {"try_turn", "try_cas", "try_reload", "done"}
            /\ q_head_' - q_tail_' = capacity]

\* thread t is in no call
Outside(pcs, t) == pcs[t] \in {"idle", "off", "loop", "joined", "done"}

\* thread t is in a try_push or try_pop that has taken no ticket, or has
\* returned false from one
Ticketless(pcs, locs, t) ==
  \/ pcs[t] \in {"try_turn", "try_cas", "try_reload",
                  "trypop_turn", "trypop_cas", "trypop_reload"}
  \/ pcs[t] = "done" /\ locs[t].result = "false"

\* the history of what a try_push or try_pop found when it was called; the
\* last conjunct of every step
TrackEntry ==
  fentry' = [t \in Workers |->
    IF ~Ticketless(fpc', floc', t)
         \/ \E u \in Workers \ {t} : ~Outside(fpc', u)
      THEN NoSnapshot
    ELSE IF ~Ticketless(fpc, floc, t)
      THEN [kept |-> TRUE, head |-> q_head_, tail |-> q_tail_,
            slots |-> slots_,
            v |-> IF t \in Consumers THEN element[t] ELSE NoValue]
    ELSE fentry[t]]

\* the value that producer p pushes next: {id, id, i} of the benchmark
NextValue(p) == <<p, num_operations[p] + 1>>

\* a producer that has not yet taken its head ticket
BeforeTicket(p) == fpc[p] \in {"try_turn", "try_cas", "try_reload"}

\* fewer than MaxPushFix head tickets are taken or about to be taken
MayPush == q_head_ + Cardinality({q \in Producers : BeforeTicket(q)})
             < MaxPushFix

\* C17, a faulty variant: the producer waits for the round of its ticket, not for
\* twice the round
ProducerTurn_Round(head) == Queue_turn(head)

\* C2, a faulty variant: the consumer waits for the turn of the producer
ConsumerTurn_Even(tail) == Queue_turn(tail) * 2

\* C8, a faulty variant: the consumer leaves the slot's turn where the producer put it
TurnAfterDestroy_Same(tail) == Queue_turn(tail) * 2 + 1

\* C3, a faulty variant: the slot index wraps at capacity(), the turn at
\* kInternalCapacity
SlotOf_Capacity(i) == i % capacity

\* slots_[idx(i)], lines 120, 133, 176, 187
SlotOf(i) == Queue_idx(i)

\* the turn a producer with ticket head waits for, lines 121 and 134
ProducerTurn(head) == Queue_turn(head) * 2

\* the turn a producer stores after construct, lines 124 and 137
TurnAfterConstruct(head) == Queue_turn(head) * 2 + 1

\* the turn a consumer with ticket tail waits for, lines 177 and 188
ConsumerTurn(tail) == Queue_turn(tail) * 2 + 1

\* the turn a consumer stores after destroy, lines 181 and 192
TurnAfterDestroy(tail) == Queue_turn(tail) * 2 + 2

\* history: the producer has taken ticket head for value val, in a call
\* that was invoked when the pushes of the values in before had returned;
\* hist says whether the history is kept
TakeHeadTicket(head, val, before, hist) ==
  IF hist
    THEN /\ ticketOf' = ticketOf \cup {<<head, val>>}
         /\ precede' = precede \cup {<<a, val>> : a \in before}
    ELSE UNCHANGED <<ticketOf, precede>>

\* emplace, line 119: auto const head = head_.fetch_add(1)
EmplaceBegin(p, from, allowed, hist) ==
  /\ fpc[p] = from
  /\ allowed
  /\ floc' = [floc EXCEPT ![p] = [NoFLocals EXCEPT
                !.op = "push", !.head = q_head_, !.value = NextValue(p)]]
  /\ q_head_' = q_head_ + 1
  /\ TakeHeadTicket(q_head_, NextValue(p), pushReturned, hist)
  /\ fpc' = [fpc EXCEPT ![p] = "emplace_spin"]
  /\ UNCHANGED <<slots_, q_tail_, element, num_operations,
                 num_popped_elements_, pushReturned, got>>
  /\ UNCHANGED <<varVars, envVars>>
  /\ TrackFull
  /\ TrackEntry

\* emplace, lines 121-122: while (turn(head) * 2 != slot.turn.load(acquire))
EmplaceSpin(p) ==
  /\ fpc[p] = "emplace_spin"
  /\ IF ProducerTurn(floc[p].head) # slots_[SlotOf(floc[p].head)].turn
       THEN UNCHANGED fpc
       ELSE fpc' = [fpc EXCEPT ![p] = "construct"]
  /\ UNCHANGED <<slots_, q_head_, q_tail_, floc, element, num_operations,
                 num_popped_elements_, pushReturned, ticketOf,
                 precede, got>>
  /\ UNCHANGED <<varVars, envVars>>
  /\ TrackFull
  /\ TrackEntry

\* try_emplace, line 131: auto head = head_.load(acquire)
TryEmplaceBegin(p, from, allowed) ==
  /\ fpc[p] = from
  /\ allowed
  /\ floc' = [floc EXCEPT ![p] = [NoFLocals EXCEPT
                !.op = "try_push", !.head = q_head_, !.value = NextValue(p),
                !.before = pushReturned]]
  /\ fpc' = [fpc EXCEPT ![p] = "try_turn"]
  /\ UNCHANGED <<slots_, q_head_, q_tail_, element, num_operations,
                 num_popped_elements_, pushReturned, ticketOf, precede, got>>
  /\ UNCHANGED <<varVars, envVars>>
  /\ TrackFull
  /\ TrackEntry

\* try_emplace, lines 133-134: if (turn(head) * 2 == slot.turn.load(acquire))
TryEmplaceTurn(p) ==
  /\ fpc[p] = "try_turn"
  /\ IF ProducerTurn(floc[p].head) = slots_[SlotOf(floc[p].head)].turn
       THEN fpc' = [fpc EXCEPT ![p] = "try_cas"]
       ELSE fpc' = [fpc EXCEPT ![p] = "try_reload"]
  /\ UNCHANGED <<slots_, q_head_, q_tail_, floc, element, num_operations,
                 num_popped_elements_, pushReturned, ticketOf,
                 precede, got>>
  /\ UNCHANGED <<varVars, envVars>>
  /\ TrackFull
  /\ TrackEntry

\* try_emplace, line 135: head_.compare_exchange_strong(head, head + 1); a
\* lost CAS leaves the current head_ in head and goes round the loop
TryEmplaceCas(p) ==
  /\ fpc[p] = "try_cas"
  /\ IF q_head_ = floc[p].head
       THEN /\ q_head_' = q_head_ + 1
            /\ TakeHeadTicket(q_head_, floc[p].value, floc[p].before, TRUE)
            /\ fpc' = [fpc EXCEPT ![p] = "construct"]
            /\ floc' = [floc EXCEPT ![p].before = {}]
       ELSE /\ floc' = [floc EXCEPT ![p].head = q_head_]
            /\ fpc' = [fpc EXCEPT ![p] = "try_turn"]
            /\ UNCHANGED <<q_head_, ticketOf, precede>>
  /\ UNCHANGED <<slots_, q_tail_, element, num_operations,
                 num_popped_elements_, pushReturned, got>>
  /\ UNCHANGED <<varVars, envVars>>
  /\ TrackFull
  /\ TrackEntry

\* try_emplace, lines 141-145: prevHead = head; head = head_.load(acquire);
\* if (head == prevHead) return false
TryEmplaceReload(p) ==
  /\ fpc[p] = "try_reload"
  /\ IF q_head_ = floc[p].head
       THEN /\ fpc' = [fpc EXCEPT ![p] = "done"]
            /\ floc' = [floc EXCEPT ![p].result = "false",
                                    ![p].before = {}]
       ELSE /\ fpc' = [fpc EXCEPT ![p] = "try_turn"]
            /\ floc' = [floc EXCEPT ![p].head = q_head_]
  /\ UNCHANGED <<slots_, q_head_, q_tail_, element, num_operations,
                 num_popped_elements_, pushReturned, ticketOf,
                 precede, got>>
  /\ UNCHANGED <<varVars, envVars>>
  /\ TrackFull
  /\ TrackEntry

\* lines 123 and 136: slot.construct(std::forward<Args>(args)...)
Construct(p) ==
  /\ fpc[p] = "construct"
  /\ slots_' = [slots_ EXCEPT ![SlotOf(floc[p].head)].storage = floc[p].value]
  /\ fpc' = [fpc EXCEPT ![p] = "turn_store"]
  /\ UNCHANGED <<q_head_, q_tail_, floc, element, num_operations,
                 num_popped_elements_, pushReturned, ticketOf,
                 precede, got>>
  /\ UNCHANGED <<varVars, envVars>>
  /\ TrackFull
  /\ TrackEntry

\* lines 124 and 137-138: slot.turn.store(turn(head) * 2 + 1, release), and
\* the return
ProducerStoreTurn(p, hist) ==
  /\ fpc[p] = "turn_store"
  /\ slots_' = [slots_ EXCEPT ![SlotOf(floc[p].head)].turn =
                                 TurnAfterConstruct(floc[p].head)]
  /\ floc' = [floc EXCEPT ![p].result =
                IF floc[p].op = "push" THEN "void" ELSE "true"]
  /\ pushReturned' = IF hist THEN pushReturned \cup {floc[p].value}
                     ELSE pushReturned
  /\ fpc' = [fpc EXCEPT ![p] = "done"]
  /\ UNCHANGED <<q_head_, q_tail_, element, num_operations,
                 num_popped_elements_, ticketOf, precede, got>>
  /\ UNCHANGED <<varVars, envVars>>
  /\ TrackFull
  /\ TrackEntry

\* pop, line 175: auto const tail = tail_.fetch_add(1)
QueuePopBegin(c, from) ==
  /\ fpc[c] = from
  /\ floc' = [floc EXCEPT ![c] = [NoFLocals EXCEPT
                !.op = "pop", !.tail = q_tail_]]
  /\ q_tail_' = q_tail_ + 1
  /\ fpc' = [fpc EXCEPT ![c] = "pop_spin"]
  /\ UNCHANGED <<slots_, q_head_, element, num_operations,
                 num_popped_elements_, pushReturned, ticketOf,
                 precede, got>>
  /\ UNCHANGED <<varVars, envVars>>
  /\ TrackFull
  /\ TrackEntry

\* pop, lines 177-178: while (turn(tail) * 2 + 1 != slot.turn.load(acquire))
QueuePopSpin(c) ==
  /\ fpc[c] = "pop_spin"
  /\ IF ConsumerTurn(floc[c].tail) # slots_[SlotOf(floc[c].tail)].turn
       THEN UNCHANGED fpc
       ELSE fpc' = [fpc EXCEPT ![c] = "move"]
  /\ UNCHANGED <<slots_, q_head_, q_tail_, floc, element, num_operations,
                 num_popped_elements_, pushReturned, ticketOf,
                 precede, got>>
  /\ UNCHANGED <<varVars, envVars>>
  /\ TrackFull
  /\ TrackEntry

\* try_pop, line 185: auto tail = tail_.load(acquire)
QueueTryPopBegin(c, from) ==
  /\ fpc[c] = from
  /\ floc' = [floc EXCEPT ![c] = [NoFLocals EXCEPT
                !.op = "try_pop", !.tail = q_tail_]]
  /\ fpc' = [fpc EXCEPT ![c] = "trypop_turn"]
  /\ UNCHANGED <<slots_, q_head_, q_tail_, element, num_operations,
                 num_popped_elements_, pushReturned, ticketOf,
                 precede, got>>
  /\ UNCHANGED <<varVars, envVars>>
  /\ TrackFull
  /\ TrackEntry

\* try_pop, lines 187-188: if (turn(tail) * 2 + 1 == slot.turn.load(acquire))
QueueTryPopTurn(c) ==
  /\ fpc[c] = "trypop_turn"
  /\ IF ConsumerTurn(floc[c].tail) = slots_[SlotOf(floc[c].tail)].turn
       THEN fpc' = [fpc EXCEPT ![c] = "trypop_cas"]
       ELSE fpc' = [fpc EXCEPT ![c] = "trypop_reload"]
  /\ UNCHANGED <<slots_, q_head_, q_tail_, floc, element, num_operations,
                 num_popped_elements_, pushReturned, ticketOf,
                 precede, got>>
  /\ UNCHANGED <<varVars, envVars>>
  /\ TrackFull
  /\ TrackEntry

\* try_pop, line 189: tail_.compare_exchange_strong(tail, tail + 1); a lost
\* CAS leaves the current tail_ in tail and goes round the loop
QueueTryPopCas(c) ==
  /\ fpc[c] = "trypop_cas"
  /\ IF q_tail_ = floc[c].tail
       THEN /\ q_tail_' = q_tail_ + 1
            /\ fpc' = [fpc EXCEPT ![c] = "move"]
            /\ UNCHANGED floc
       ELSE /\ floc' = [floc EXCEPT ![c].tail = q_tail_]
            /\ fpc' = [fpc EXCEPT ![c] = "trypop_turn"]
            /\ UNCHANGED q_tail_
  /\ UNCHANGED <<slots_, q_head_, element, num_operations,
                 num_popped_elements_, pushReturned, ticketOf,
                 precede, got>>
  /\ UNCHANGED <<varVars, envVars>>
  /\ TrackFull
  /\ TrackEntry

\* C16, a faulty variant: a try_pop that finds nothing resets the caller's v
\* before it returns false
QueueTryPopReload_Resets(c) ==
  /\ fpc[c] = "trypop_reload"
  /\ IF q_tail_ = floc[c].tail
       THEN /\ fpc' = [fpc EXCEPT ![c] = "done"]
            /\ floc' = [floc EXCEPT ![c].result = "false"]
            /\ element' = [element EXCEPT ![c] = NoValue]
       ELSE /\ fpc' = [fpc EXCEPT ![c] = "trypop_turn"]
            /\ floc' = [floc EXCEPT ![c].tail = q_tail_]
            /\ UNCHANGED element
  /\ UNCHANGED <<slots_, q_head_, q_tail_, num_operations,
                 num_popped_elements_, pushReturned, ticketOf,
                 precede, got>>
  /\ UNCHANGED <<varVars, envVars>>
  /\ TrackFull
  /\ TrackEntry

\* try_pop, lines 196-200: prevTail = tail; tail = tail_.load(acquire);
\* if (tail == prevTail) return false
QueueTryPopReload(c) ==
  /\ fpc[c] = "trypop_reload"
  /\ IF q_tail_ = floc[c].tail
       THEN /\ fpc' = [fpc EXCEPT ![c] = "done"]
            /\ floc' = [floc EXCEPT ![c].result = "false"]
       ELSE /\ fpc' = [fpc EXCEPT ![c] = "trypop_turn"]
            /\ floc' = [floc EXCEPT ![c].tail = q_tail_]
  /\ UNCHANGED <<slots_, q_head_, q_tail_, element, num_operations,
                 num_popped_elements_, pushReturned, ticketOf,
                 precede, got>>
  /\ UNCHANGED <<varVars, envVars>>
  /\ TrackFull
  /\ TrackEntry

\* lines 179-180 and 190-191: v = slot.move(); slot.destroy()
QueueMove(c, hist) ==
  /\ fpc[c] = "move"
  /\ LET val == slots_[SlotOf(floc[c].tail)].storage IN
       /\ element' = [element EXCEPT ![c] = val]
       /\ got' = IF hist
                    THEN [got EXCEPT ![c] =
                            Append(@, [value |-> val, ticket |-> floc[c].tail])]
                    ELSE got
  /\ slots_' = [slots_ EXCEPT ![SlotOf(floc[c].tail)].storage = Destroyed]
  /\ fpc' = [fpc EXCEPT ![c] = "turn_store"]
  /\ UNCHANGED <<q_head_, q_tail_, floc, num_operations,
                 num_popped_elements_, pushReturned, ticketOf,
                 precede>>
  /\ UNCHANGED <<varVars, envVars>>
  /\ TrackFull
  /\ TrackEntry

\* lines 181 and 192-193: slot.turn.store(turn(tail) * 2 + 2, release), and
\* the return
ConsumerStoreTurn(c) ==
  /\ fpc[c] = "turn_store"
  /\ slots_' = [slots_ EXCEPT ![SlotOf(floc[c].tail)].turn =
                                 TurnAfterDestroy(floc[c].tail)]
  /\ floc' = [floc EXCEPT ![c].result =
                IF floc[c].op = "pop" THEN "void" ELSE "true"]
  /\ fpc' = [fpc EXCEPT ![c] = "done"]
  /\ UNCHANGED <<q_head_, q_tail_, element, num_operations,
                 num_popped_elements_, pushReturned, ticketOf,
                 precede, got>>
  /\ UNCHANGED <<varVars, envVars>>
  /\ TrackFull
  /\ TrackEntry

\* the call has returned and the caller counts it if it did not fail:
\* ++result->num_operations, benchmark.h lines 195 and 206; counted says
\* whether the caller keeps the shared count ++num_popped_elements_, line 207
QueueReturn(t, counted) ==
  /\ fpc[t] = "done"
  /\ fpc' = [fpc EXCEPT ![t] = "idle"]
  /\ floc' = [floc EXCEPT ![t] = NoFLocals]
  /\ IF floc[t].result = "false"
       THEN UNCHANGED <<num_operations, num_popped_elements_>>
       ELSE /\ num_operations' = [num_operations EXCEPT ![t] = @ + 1]
            /\ num_popped_elements_' =
                 IF counted THEN num_popped_elements_ + 1
                 ELSE num_popped_elements_
  /\ UNCHANGED <<slots_, q_head_, q_tail_, element, pushReturned,
                 ticketOf, precede, got>>
  /\ UNCHANGED <<varVars, envVars>>
  /\ TrackFull
  /\ TrackEntry

\* static_cast<ptrdiff_t>(x) of a size_t x
ToPtrdiff(x) ==
  IF x % SizeMod >= SizeMod \div 2 THEN (x % SizeMod) - SizeMod
  ELSE x % SizeMod

\* size(), lines 209-213, from the two values that it loads
Queue_size(head, tail) == ToPtrdiff(head - tail)

\* C15, a faulty variant: only a negative size counts as empty
Queue_empty_Negative(head, tail) == Queue_size(head, tail) < 0

\* empty(), line 218
Queue_empty(head, tail) == Queue_size(head, tail) <= 0

(***************************************************************************)
(* Specifications of Queue.                                                *)
(***************************************************************************)
\* the sets of threads that run together in the concurrent specification:
\* all producers and one consumer, or one producer and all consumers
QueueTeams == { Producers \cup {NumProducers + 1}, {1} \cup Consumers }

\* the threads of one team are started, the others never run
InitFix ==
  /\ VarUnused
  /\ TestUnused
  /\ SegUnused
  /\ LockUnused
  /\ InitFixQueue
  /\ \E team \in QueueTeams :
       fpc = [t \in Workers |-> IF t \in team THEN "idle" ELSE "off"]

\* every producer and every consumer of the benchmark is started
InitFixBench ==
  /\ VarUnused
  /\ TestUnused
  /\ SegUnused
  /\ LockUnused
  /\ InitFixQueue
  /\ fpc = [t \in Workers |-> "idle"]

\* producers call push and try_push, consumers call pop and try_pop, in any
\* interleaving
NextFix ==
  \/ \E p \in Producers : EmplaceBegin(p, "idle", MayPush, TRUE)
  \/ \E p \in Producers : EmplaceSpin(p)
  \/ \E p \in Producers : TryEmplaceBegin(p, "idle", MayPush)
  \/ \E p \in Producers : TryEmplaceTurn(p)
  \/ \E p \in Producers : TryEmplaceCas(p)
  \/ \E p \in Producers : TryEmplaceReload(p)
  \/ \E p \in Producers : Construct(p)
  \/ \E p \in Producers : ProducerStoreTurn(p, TRUE)
  \/ \E c \in Consumers : QueuePopBegin(c, "idle")
  \/ \E c \in Consumers : QueuePopSpin(c)
  \/ \E c \in Consumers : QueueTryPopBegin(c, "idle")
  \/ \E c \in Consumers : QueueTryPopTurn(c)
  \/ \E c \in Consumers : QueueTryPopCas(c)
  \/ \E c \in Consumers : QueueTryPopReload(c)
  \/ \E c \in Consumers : QueueMove(c, TRUE)
  \/ \E c \in Consumers : ConsumerStoreTurn(c)
  \/ \E t \in Workers : QueueReturn(t, FALSE)

SpecFix == InitFix /\ [][NextFix]_vars

\* no other thread is inside a call of the Queue
SoloFix(t) == \A u \in Workers \ {t} : fpc[u] \in {"idle", "off"}

\* how many elements the consumers have received
PoppedCount ==
  Cardinality({ci \in Consumers \X (1..Cardinality(ticketOf)) :
                 ci[2] <= Len(got[ci[1]])})

\* the elements that the callers have pushed and not popped
Held == Cardinality(ticketOf) - PoppedCount

\* the caller pushes while fewer than capacity() elements are held
MayPushSeq(p) ==
  /\ SoloFix(p)
  /\ Held < capacity
  /\ q_head_ < MaxPushFixSeq

\* Calls that do not overlap, with at most capacity() elements held: a
\* caller pushes only when fewer are held, and calls the blocking pop only
\* when an element is held.  try_emplace then never reaches lines 140-145,
\* so TryEmplaceReload is no step here.
NextFixSeq ==
  \/ \E p \in Producers : EmplaceBegin(p, "idle", MayPushSeq(p), TRUE)
  \/ \E p \in Producers : EmplaceSpin(p)
  \/ \E p \in Producers : TryEmplaceBegin(p, "idle", MayPushSeq(p))
  \/ \E p \in Producers : TryEmplaceTurn(p)
  \/ \E p \in Producers : TryEmplaceCas(p)
  \/ \E p \in Producers : Construct(p)
  \/ \E p \in Producers : ProducerStoreTurn(p, TRUE)
  \/ \E c \in Consumers : SoloFix(c) /\ Held > 0 /\ QueuePopBegin(c, "idle")
  \/ \E c \in Consumers : QueuePopSpin(c)
  \/ \E c \in Consumers : SoloFix(c) /\ QueueTryPopBegin(c, "idle")
  \/ \E c \in Consumers : QueueTryPopTurn(c)
  \/ \E c \in Consumers : QueueTryPopCas(c)
  \/ \E c \in Consumers : QueueTryPopReload(c)
  \/ \E c \in Consumers : QueueMove(c, TRUE)
  \/ \E c \in Consumers : ConsumerStoreTurn(c)
  \/ \E t \in Workers : QueueReturn(t, FALSE)

SpecFixSeq == InitFixBench /\ [][NextFixSeq]_vars

(***************************************************************************)
(* Benchmark<QueueT>::PushThread and PopThread, benchmark.h lines 188-210, *)
(* as RunTest of queue_mpmc_test.cpp starts them.                          *)
(***************************************************************************)
\* num_elements_to_push_: the pushes of all producers together
num_elements_to_push_ == PushPerThread * NumProducers

\* line 190: push_per_thread = num_elements_to_push_ / threads.size()
push_per_thread == num_elements_to_push_ \div NumProducers

\* line 193: the loop of PushThread has ended
PushThreadEnd(p) ==
  /\ fpc[p] = "idle"
  /\ ~(num_operations[p] < push_per_thread)
  /\ fpc' = [fpc EXCEPT ![p] = "joined"]
  /\ UNCHANGED <<slots_, q_head_, q_tail_, floc, element, num_operations,
                 num_popped_elements_, pushReturned, ticketOf,
                 precede, got>>
  /\ UNCHANGED <<varVars, envVars>>
  /\ TrackFull
  /\ TrackEntry

\* line 204: while (num_popped_elements_ < num_elements_to_push_)
PopThreadLoop(c) ==
  /\ fpc[c] = "idle"
  /\ IF num_popped_elements_ < num_elements_to_push_
       THEN fpc' = [fpc EXCEPT ![c] = "loop"]
       ELSE fpc' = [fpc EXCEPT ![c] = "joined"]
  /\ UNCHANGED <<slots_, q_head_, q_tail_, floc, element, num_operations,
                 num_popped_elements_, pushReturned, ticketOf,
                 precede, got>>
  /\ UNCHANGED <<varVars, envVars>>
  /\ TrackFull
  /\ TrackEntry

\* the steps of producer p in PushThread
PushThread(p) ==
  \/ EmplaceBegin(p, "idle", num_operations[p] < push_per_thread, FALSE)
  \/ EmplaceSpin(p)
  \/ Construct(p)
  \/ ProducerStoreTurn(p, FALSE)
  \/ QueueReturn(p, FALSE)
  \/ PushThreadEnd(p)

\* the steps of consumer c in PopThread
PopThread(c) ==
  \/ PopThreadLoop(c)
  \/ QueueTryPopBegin(c, "loop")
  \/ QueueTryPopTurn(c)
  \/ QueueTryPopCas(c)
  \/ QueueTryPopReload(c)
  \/ QueueMove(c, FALSE)
  \/ ConsumerStoreTurn(c)
  \/ QueueReturn(c, TRUE)

NextFixBench ==
  \/ \E p \in Producers :
       EmplaceBegin(p, "idle", num_operations[p] < push_per_thread, FALSE)
  \/ \E p \in Producers : EmplaceSpin(p)
  \/ \E p \in Producers : Construct(p)
  \/ \E p \in Producers : ProducerStoreTurn(p, FALSE)
  \/ \E p \in Producers : QueueReturn(p, FALSE)
  \/ \E p \in Producers : PushThreadEnd(p)
  \/ \E c \in Consumers : PopThreadLoop(c)
  \/ \E c \in Consumers : QueueTryPopBegin(c, "loop")
  \/ \E c \in Consumers : QueueTryPopTurn(c)
  \/ \E c \in Consumers : QueueTryPopCas(c)
  \/ \E c \in Consumers : QueueTryPopReload(c)
  \/ \E c \in Consumers : QueueMove(c, FALSE)
  \/ \E c \in Consumers : ConsumerStoreTurn(c)
  \/ \E c \in Consumers : QueueReturn(c, TRUE)

\* every thread that can take a step eventually takes one
SpecFixBench ==
  /\ InitFixBench
  /\ [][NextFixBench]_vars
  /\ \A p \in Producers : WF_vars(PushThread(p))
  /\ \A c \in Consumers : WF_vars(PopThread(c))

(***************************************************************************)
(* shared_memory.h and shared_memory_buffer.h: process A constructs a      *)
(* SharedMemoryBuffer in mode kCreate, places an MpmcQueue in it and       *)
(* pushes one record; process B constructs SharedMemoryBuffers in mode     *)
(* kAccessExisting, takes the bytes at offset 0 as the queue and pops.     *)
(* Each process is one thread.  The operating system may refuse a call     *)
(* (ok = FALSE).  Both builds of shared_memory.h are covered: platform is  *)
(* chosen in the initial state.                                            *)
(***************************************************************************)
\* the thread of the MpmcQueue model that a process runs as
ThreadOf(P) == IF P = "A" THEN TestThread ELSE TestPopper

\* the Type each process passes to the constructor
TypeOf(P) == IF P = "A" THEN "kCreate" ELSE "kAccessExisting"

\* sizeof(MpmcQueue<kCapacity>): the line of capacity_, num_pushs_ and
\* num_pops_, a line each for head_, tail_ and read_, and data_
sizeof_MpmcQueue == 4 * kCacheLineSize + kCapacity

sizeof(T) == IF T = "int" THEN 4 ELSE sizeof_MpmcQueue

\* the record process A pushes: kChildMessage, "Hello World!"
kChildMessage == [len |-> 12, fill |-> 12]

\* pointer + n on a machine of SizeMod addresses
PtrAdd(ptr, n) == <<ptr[1], (ptr[2] + n) % SizeMod>>

\* sham::CreateFileMapping: shm_open(O_RDWR | O_CREAT), fchmod and
\* ftruncate, or CreateFileMappingA; the handle is returned as the
\* operating system gave it
CreateFileMapping(ok) == IF ok THEN "handle" ELSE kInvalidFileHandle

\* C18, a faulty variant: the name is opened exclusively, as with O_EXCL
OpenFileMapping_Exclusive(linked, ok) ==
  IF ok /\ ~linked THEN "handle" ELSE kInvalidFileHandle

\* sham::OpenFileMapping: shm_open(O_RDWR) or OpenFileMappingA
OpenFileMapping(linked, ok) ==
  IF ok /\ linked THEN "handle" ELSE kInvalidFileHandle

\* sham::MapViewOfFile: mmap returns MAP_FAILED on failure and the POSIX
\* build passes it on; MapViewOfFile of the Windows API returns NULL
MapViewOfFile(file_handle, ok) ==
  IF file_handle # kInvalidFileHandle /\ ok THEN <<"view", 0>>
  ELSE IF platform = "posix" THEN MAP_FAILED ELSE nullptr

\* sham::UnMapViewOfFile: if (address == nullptr) return; munmap(address,
\* size), or UnmapViewOfFile(address).  TRUE if a view is released: munmap
\* and UnmapViewOfFile fail on an address that is not a view's
UnMapViewOfFile(address) == address = <<"view", 0>>

\* another process keeps the file mapping object of the Windows build alive
HeldByOther(P) ==
  \E Q \in Objects \ {P} :
    /\ seg[Q].life = "live"
    /\ seg[Q].handle_ # kInvalidFileHandle \/ seg[Q].buffer_[1] = "view"

\* sham::DestroyFileMapping, the name after it: POSIX
\* if (handle != kInvalidFileHandle) shm_unlink(name); Windows
\* if (handle) CloseHandle(handle), the object and its name living on while
\* another process holds a handle or a view.  The view of the caller is
\* unmapped by then
DestroyFileMapping(handle, linked, held) ==
  IF platform = "posix"
    THEN IF handle # kInvalidFileHandle THEN FALSE ELSE linked
    ELSE linked /\ held

\* bool valid() const { return buffer_ != nullptr; }
valid(s) == s.buffer_ # nullptr

\* uint8_t* data() { return buffer_; }
data(s) == s.buffer_

\* Allocate, line 71: size_t next_size = size_ + num_bytes
Allocate_next_size(size, num_bytes) == (size + num_bytes) % SizeMod

\* Allocate, lines 72-75: the pointer returned
Allocate_ptr(s, num_bytes) ==
  IF Allocate_next_size(s.size_, num_bytes) > s.capacity_ THEN nullptr
  ELSE PtrAdd(s.buffer_, s.size_)

\* C25, a faulty variant: size_ = next_size without the test of line 72
Allocate_size_Unchecked(s, num_bytes) ==
  Allocate_next_size(s.size_, num_bytes)

\* Allocate, lines 72-75: size_ after the call
Allocate_size(s, num_bytes) ==
  IF Allocate_next_size(s.size_, num_bytes) > s.capacity_ THEN s.size_
  ELSE Allocate_next_size(s.size_, num_bytes)

\* Allocate, lines 72-75, as history: the offset and the size of a call
\* that did not return at line 72
Allocate_allocs(s, num_bytes) ==
  IF Allocate_next_size(s.size_, num_bytes) > s.capacity_ THEN s.allocs
  ELSE Append(s.allocs, <<s.size_, num_bytes>>)

\* As<T>(offset), lines 86-88
As(s, T, offset) ==
  IF (offset + sizeof(T)) % SizeMod > s.capacity_ THEN nullptr
  ELSE PtrAdd(s.buffer_, offset)

\* the process can use the MpmcQueue behind q: q is the start of the view
\* that its SharedMemoryBuffer has mapped
Deref(P, q) ==
  /\ seg[P].life = "live"
  /\ seg[P].buffer_ = <<"view", 0>>
  /\ q = <<"view", 0>>

\* the name once a process is gone without its destructor
AfterCrash(P) ==
  [shm EXCEPT !.linked = IF platform = "posix" THEN shm.linked
                         ELSE shm.linked /\ HeldByOther(P)]

\* the bytes of a new shared memory object: ftruncate and CreateFileMappingA
\* give zeroes
ZeroedObject ==
  /\ head_ = 0
  /\ tail_ = 0
  /\ read_ = 0
  /\ data_ = [l \in 0..(NumLines - 1) |-> ZeroLine]
  /\ beyond = [l \in 0..(NumBeyond - 1) |-> ZeroLine]
  /\ oob = FALSE
  /\ aborted = FALSE
  /\ num_pushs_ = 0
  /\ num_pops_ = 0
  /\ vloc = [t \in Threads |-> NoLocals]
  /\ buffer = [c \in Consumers |-> EmptyBuffer]
  /\ sent = <<>>
  /\ accepted = {}
  /\ received = EmptyBag
  /\ entry = [t \in Threads |-> NoEntry]

\* the capacity passed to the constructors: the queue fits, or does not
InitSeg ==
  /\ FixUnused
  /\ TestUnused
  /\ LockUnused
  /\ ZeroedObject
  /\ vpc = [t \in Threads |->
             IF t \in {TestThread, TestPopper} THEN "idle" ELSE "off"]
  /\ platform \in {"posix", "win32"}
  /\ kBufferSize \in {sizeof_MpmcQueue, sizeof_MpmcQueue \div 2}
  /\ shm = NoName
  /\ seg = [P \in Objects |-> NoSegment]
  /\ sloc = [P \in Objects |-> NoSegLocals]

\* the locals once P has made a call on its segment: of the calls of
\* Allocate, As and the moves only the latest is remembered
Latest(P, l) ==
  [Q \in Objects |->
     IF Q = P THEN l
     ELSE [sloc[Q] EXCEPT !.op = "none", !.arg = 0, !.ret = nullptr,
                          !.before = 0]]

\* SharedMemoryBuffer(name, capacity, type), lines 35-40.  Process A
\* constructs its segment once, process B up to MaxOpens times
SharedMemoryBuffer(P, okOpen, okMap) ==
  /\ seg[P].life = "none" \/ (P = "B" /\ seg[P].life = "destroyed")
  /\ sloc[P].opens < MaxOpens
  /\ LET handle == IF TypeOf(P) = "kCreate"
                     THEN CreateFileMapping(okOpen)
                     ELSE OpenFileMapping(shm.linked, okOpen)
     IN seg' = [seg EXCEPT ![P] =
                  [NoSegment EXCEPT
                     !.life = "live",
                     !.type = TypeOf(P),
                     !.handle_ = handle,
                     !.buffer_ = MapViewOfFile(handle, okMap),
                     !.capacity_ = kBufferSize,
                     !.when = [alive |-> seg["A"].life = "live",
                               pushed |-> (accepted # {} /\
                                           sloc["A"].res = "true"),
                               first |-> sloc[P].opens = 0],
                     !.granted = [open |-> okOpen, map |-> okMap],
                     !.id = <<P, sloc[P].opens + 1>>]]
  /\ shm' = [shm EXCEPT
               !.linked = shm.linked \/ (TypeOf(P) = "kCreate" /\ okOpen),
               !.handles = IF seg'[P].handle_ # kInvalidFileHandle
                             THEN shm.handles \cup {seg'[P].id}
                             ELSE shm.handles,
               !.views = IF seg'[P].buffer_[1] = "view"
                           THEN shm.views \cup {seg'[P].id}
                           ELSE shm.views]
  /\ sloc' = [sloc EXCEPT ![P] =
                [NoSegLocals EXCEPT !.opens = sloc[P].opens + 1]]
  /\ UNCHANGED <<platform, kBufferSize>>
  /\ UNCHANGED <<varVars, fixVars, testVars, lockVars>>

\* ~SharedMemoryBuffer(), lines 61-64, the operating system's entry after
\* it: UnMapViewOfFile(buffer_, capacity_); DestroyFileMapping(handle_,
\* name_)
AfterDestructor(P) ==
  [moves |-> shm.moves, handles |-> shm.handles, views |-> shm.views,
   linked |-> DestroyFileMapping(seg[P].handle_, shm.linked, HeldByOther(P)),
   unmapped |-> IF UnMapViewOfFile(seg[P].buffer_)
                  THEN shm.unmapped (+) SetToBag({seg[P].id})
                  ELSE shm.unmapped,
   destroyed |-> IF seg[P].handle_ # kInvalidFileHandle
                   THEN shm.destroyed (+) SetToBag({seg[P].id})
                   ELSE shm.destroyed]

\* ~SharedMemoryBuffer(), lines 61-64.  The process is outside every call
\* on the queue
Destructor(P) ==
  /\ seg[P].life = "live"
  /\ vpc[ThreadOf(P)] = "idle"
  /\ shm' = AfterDestructor(P)
  /\ seg' = [seg EXCEPT
               ![P].life = "destroyed",
               ![P].unmapped = UnMapViewOfFile(seg[P].buffer_),
               ![P].unlinked = (shm.linked /\ ~AfterDestructor(P).linked)]
  /\ sloc' = [sloc EXCEPT ![P] =
                [NoSegLocals EXCEPT !.opens = sloc[P].opens,
                                    !.res = sloc[P].res]]
  /\ UNCHANGED <<platform, kBufferSize>>
  /\ UNCHANGED <<varVars, fixVars, testVars, lockVars>>

\* uint8_t* Allocate(size_t num_bytes), lines 70-76.  A process that has
\* taken a queue in its segment calls the queue only
Allocate(P, num_bytes) ==
  /\ seg[P].life = "live"
  /\ ~sloc[P].hasq
  /\ sloc[P].calls < MaxSegCalls
  /\ seg' = [seg EXCEPT
               ![P].size_ = Allocate_size(seg[P], num_bytes),
               ![P].allocs = Allocate_allocs(seg[P], num_bytes)]
  /\ sloc' = Latest(P, [sloc[P] EXCEPT
                          !.op = "Allocate",
                          !.arg = num_bytes,
                          !.ret = Allocate_ptr(seg[P], num_bytes),
                          !.before = seg[P].size_,
                          !.calls = sloc[P].calls + 1])
  /\ UNCHANGED <<platform, kBufferSize, shm>>
  /\ UNCHANGED <<varVars, fixVars, testVars, lockVars>>

\* MpmcQueue::MpmcQueue() at the start of the view: head_(1), tail_(0),
\* read_(0), memset(data_, 0), the first header kReadyToFill, and the
\* default member initialisers of the counters
MpmcQueue_ctor ==
  /\ head_' = 1
  /\ tail_' = 0
  /\ read_' = 0
  /\ data_' = [l \in 0..(NumLines - 1) |->
                 IF l = 0 THEN [ZeroLine EXCEPT !.size = kReadyToFill]
                 ELSE ZeroLine]
  /\ num_pushs_' = 0
  /\ num_pops_' = 0
  /\ UNCHANGED <<beyond, oob, aborted, vpc, vloc, buffer, sent, accepted,
                 received, entry>>

\* T* Allocate<T>(args), lines 78-83, with T = MpmcQueue, as the first call
\* on the segment: Allocate(sizeof(T)), nullptr if that is nullptr, else
\* new (buffer) T().  The constructor writes through the pointer: outside a
\* view the process is killed ("crash"), or the write goes unnoticed
AllocateQueue(P, outcome) ==
  /\ seg[P].life = "live"
  /\ vpc[ThreadOf(P)] = "idle"
  /\ sloc[P].calls = 0
  /\ ~sloc[P].hasq
  /\ LET ptr == Allocate_ptr(seg[P], sizeof("MpmcQueue"))
         s == [seg EXCEPT
                 ![P].size_ = Allocate_size(seg[P], sizeof("MpmcQueue")),
                 ![P].allocs = Allocate_allocs(seg[P], sizeof("MpmcQueue"))]
         l == [sloc EXCEPT
                 ![P].op = "Allocate", ![P].arg = sizeof("MpmcQueue"),
                 ![P].ret = ptr, ![P].q = ptr,
                 ![P].hasq = TRUE, ![P].before = seg[P].size_,
                 ![P].calls = sloc[P].calls + 1]
     IN IF ptr = nullptr
          THEN /\ seg' = s
               /\ sloc' = l
               /\ UNCHANGED <<shm, varVars>>
        ELSE IF Deref(P, ptr)
          THEN /\ seg' = s
               /\ sloc' = l
               /\ MpmcQueue_ctor
               /\ UNCHANGED shm
        ELSE IF outcome = "crash"
          THEN /\ seg' = [s EXCEPT ![P].life = "crashed"]
               /\ sloc' = l
               /\ shm' = AfterCrash(P)
               /\ UNCHANGED varVars
        ELSE /\ seg' = s
             /\ sloc' = l
             /\ UNCHANGED <<shm, varVars>>
  /\ UNCHANGED <<platform, kBufferSize>>
  /\ UNCHANGED <<fixVars, testVars, lockVars>>

\* T* As<T>(offset), lines 85-89; the process keeps As<MpmcQueue>, taken
\* as its first call on the segment, as its queue
SegAs(P, T, offset) ==
  /\ seg[P].life = "live"
  /\ ~sloc[P].hasq
  /\ IF T = "MpmcQueue" THEN sloc[P].calls = 0
                        ELSE sloc[P].calls < MaxSegCalls
  /\ sloc' = Latest(P, [sloc[P] EXCEPT
                          !.op = "As",
                          !.arg = offset,
                          !.ret = As(seg[P], T, offset),
                          !.before = seg[P].size_,
                          !.calls = sloc[P].calls + 1,
                          !.q = IF T = "MpmcQueue"
                                  THEN As(seg[P], T, offset)
                                  ELSE sloc[P].q,
                          !.hasq = (sloc[P].hasq \/ T = "MpmcQueue")])
  /\ UNCHANGED <<platform, kBufferSize, shm, seg>>
  /\ UNCHANGED <<varVars, fixVars, testVars, lockVars>>

\* process A: q->try_push(kChildMessage), once
SegTryPush(P) ==
  /\ sloc[P].hasq
  /\ sloc[P].qcalls = 0
  /\ Deref(P, sloc[P].q)
  /\ PushBegin(ThreadOf(P), {kChildMessage}, 1, FALSE)

\* process B: q->try_pop(buffer), once for each segment it constructs
SegTryPop(P) ==
  /\ sloc[P].hasq
  /\ sloc[P].qcalls = 0
  /\ Deref(P, sloc[P].q)
  /\ PopBegin(ThreadOf(P), FALSE)

\* the call on the queue has returned
SegReturn(P) ==
  /\ ~aborted
  /\ vpc[ThreadOf(P)] = "done"
  /\ vpc' = [vpc EXCEPT ![ThreadOf(P)] = "idle"]
  /\ vloc' = [vloc EXCEPT ![ThreadOf(P)] = NoLocals]
  /\ sloc' = [sloc EXCEPT
                ![P].qcalls = sloc[P].qcalls + 1,
                ![P].res = vloc[ThreadOf(P)].result]
  /\ UNCHANGED <<head_, tail_, read_, data_, beyond, oob, aborted, num_pushs_,
                 num_pops_, buffer, sent, accepted, received, entry>>
  /\ UNCHANGED <<platform, kBufferSize, shm, seg>>
  /\ UNCHANGED <<fixVars, testVars, lockVars>>

\* a call on the queue through a pointer that is nullptr or points into no
\* view: the process is killed, or the call returns whatever it found
SegWildCall(P, outcome, res) ==
  /\ seg[P].life = "live"
  /\ vpc[ThreadOf(P)] = "idle"
  /\ sloc[P].hasq
  /\ sloc[P].qcalls = 0
  /\ ~Deref(P, sloc[P].q)
  /\ IF outcome = "crash"
       THEN /\ seg' = [seg EXCEPT ![P].life = "crashed"]
            /\ shm' = AfterCrash(P)
            /\ sloc' = [sloc EXCEPT ![P].qcalls = 1, ![P].res = "crash"]
       ELSE /\ sloc' = [sloc EXCEPT ![P].qcalls = 1, ![P].res = res]
            /\ UNCHANGED <<shm, seg>>
  /\ UNCHANGED <<platform, kBufferSize>>
  /\ UNCHANGED <<varVars, fixVars, testVars, lockVars>>

\* the types given to As are int and MpmcQueue, the offsets 0 and
\* kCacheLineSize; Allocate is called for 1 byte and for half the queue
NextSeg ==
  \/ \E P \in Procs, okOpen, okMap \in BOOLEAN :
       SharedMemoryBuffer(P, okOpen, okMap)
  \/ \E P \in Procs : Destructor(P)
  \/ \E P \in Procs, n \in {1, sizeof_MpmcQueue \div 2} : Allocate(P, n)
  \/ \E outcome \in {"crash", "unnoticed"} : AllocateQueue("A", outcome)
  \/ \E P \in Procs, T \in {"int", "MpmcQueue"},
        offset \in {0, kCacheLineSize} : SegAs(P, T, offset)
  \/ SegTryPush("A")
  \/ PushLoadHead(TestThread)
  \/ PushCas(TestThread)
  \/ PushZeroNext(TestThread)
  \/ PushStabilise(TestThread)
  \/ PushCopy(TestThread)
  \/ PushPublish(TestThread, "done")
  \/ SegTryPop("B")
  \/ PopSpin(TestPopper)
  \/ PopLoadSize(TestPopper, "done")
  \/ PopCas(TestPopper, "done")
  \/ PopCopy(TestPopper)
  \/ PopTombstone(TestPopper)
  \/ ShrinkLoadTail(TestPopper)
  \/ ShrinkLoadSize(TestPopper, "done")
  \/ ShrinkCas(TestPopper, "done")
  \/ \E P \in Procs : SegReturn(P)
  \/ \E P \in Procs, outcome \in {"crash", "unnoticed"},
        res \in {"true", "false"} : SegWildCall(P, outcome, res)

SpecSeg == InitSeg /\ [][NextSeg]_vars

(***************************************************************************)
(* shared_memory_buffer_test.cpp: the users of a SharedMemoryBuffer that   *)
(* call Allocate and As and move their segments, without a queue.  The     *)
(* objects may belong to one process, as in the tests MultipleAccess,      *)
(* MoveConstructor and MoveAssignment.                                     *)
(***************************************************************************)
\* C22, a faulty variant: the moved-from object keeps its view
MovedFrom_KeepsView(s) ==
  [s EXCEPT !.handle_ = kInvalidFileHandle, !.size_ = 0, !.allocs = <<>>,
            !.moved = TRUE]

\* the move constructor, lines 48-50: other.handle_ = kInvalidFileHandle;
\* other.buffer_ = nullptr; other.size_ = 0
MovedFrom(s) ==
  [s EXCEPT !.handle_ = kInvalidFileHandle, !.buffer_ = nullptr,
            !.size_ = 0,
            !.id = <<"none", 0>>, !.allocs = <<>>, !.moved = TRUE]

\* the move constructor, lines 42-47: name_, capacity_, handle_, buffer_
\* and size_ of the new object are those of other
MovedTo(s) ==
  [s EXCEPT !.life = "live", !.moved = FALSE, !.unmapped = FALSE,
            !.unlinked = FALSE]

\* what the two users know after a move of S to D
AfterMove(D, S) ==
  [Latest(D, [NoSegLocals EXCEPT
                !.op = "move", !.arg = seg[S].capacity_,
                !.ret = seg[S].buffer_, !.before = seg[S].size_,
                !.calls = sloc[S].calls, !.opens = sloc[D].opens])
     EXCEPT ![S] = [NoSegLocals EXCEPT
                      !.calls = sloc[S].calls, !.opens = sloc[S].opens]]

\* SharedMemoryBuffer(SharedMemoryBuffer&& other), lines 42-51
MoveConstruct(D, S) ==
  /\ D # S
  /\ seg[D].life \in {"none", "destroyed"}
  /\ seg[S].life = "live"
  /\ shm.moves < MaxMoves
  /\ seg' = [seg EXCEPT ![D] = MovedTo(seg[S]), ![S] = MovedFrom(seg[S])]
  /\ sloc' = AfterMove(D, S)
  /\ shm' = [shm EXCEPT !.moves = shm.moves + 1]
  /\ UNCHANGED <<platform, kBufferSize>>
  /\ UNCHANGED <<varVars, fixVars, testVars, lockVars>>

\* operator=(SharedMemoryBuffer&& other), lines 53-59, for this != &other:
\* this->~SharedMemoryBuffer(); new (this) SharedMemoryBuffer(std::move(other))
MoveAssign(D, S) ==
  /\ D # S
  /\ seg[D].life = "live"
  /\ seg[S].life = "live"
  /\ shm.moves < MaxMoves
  /\ shm' = [AfterDestructor(D) EXCEPT !.moves = shm.moves + 1]
  /\ seg' = [seg EXCEPT ![D] = MovedTo(seg[S]), ![S] = MovedFrom(seg[S])]
  /\ sloc' = AfterMove(D, S)
  /\ UNCHANGED <<platform, kBufferSize>>
  /\ UNCHANGED <<varVars, fixVars, testVars, lockVars>>

\* the calls of Allocate and As made on all segments together
RECURSIVE TotalCalls(_)
TotalCalls(objs) ==
  IF objs = {} THEN 0
  ELSE LET P == CHOOSE Q \in objs : TRUE
       IN sloc[P].calls + TotalCalls(objs \ {P})

\* Allocate is called for 1 byte, for half the queue and for the largest
\* size_t; As<int> for the offsets 0, kCacheLineSize and the largest size_t.
\* Each process constructs one segment, and the operating system grants
\* what it can grant: an open fails only when the name is not linked
NextAlloc ==
  \/ \E P \in Procs :
       /\ seg[P].life = "none"
       /\ SharedMemoryBuffer(P, TRUE, TRUE)
  \/ \E P \in Objects : Destructor(P)
  \/ \E P \in Objects, n \in {1, sizeof_MpmcQueue \div 2, SizeMod - 1} :
       /\ TotalCalls(Objects) < MaxSegCalls
       /\ Allocate(P, n)
  \/ \E P \in Objects, offset \in {0, kCacheLineSize, SizeMod - 1} :
       /\ TotalCalls(Objects) < MaxSegCalls
       /\ SegAs(P, "int", offset)
  \/ \E D, S \in Objects : MoveConstruct(D, S)
  \/ \E D, S \in Objects : MoveAssign(D, S)

SpecAlloc == InitSeg /\ [][NextAlloc]_vars

(***************************************************************************)
(* queue_locking.h: the callers of a LockingQueue<int, 3>, as in the test  *)
(* SequentialQueueAndDequeue.                                              *)
(***************************************************************************)
\* C26, a faulty variant: the index wraps at kCapacity
LockingQueue_inc_Capacity(idx_) == (idx_ + 1) % kLockingCapacity

\* inc(idx), line 106
LockingQueue_inc(idx_) == (idx_ + 1) % LockingQueue_kInternalCapacity

\* is_full(lk), line 108
LockingQueue_is_full(q) == LockingQueue_inc(q.in_) = q.out_

\* no thread uses the other queues and the segments
InitLocking ==
  /\ FixUnused
  /\ TestUnused
  /\ SegUnused
  /\ VarUnused
  /\ locking = NoLockingQueue
  /\ lcall = NoLockCall

\* what the caller sees after a call; held is kept as a queue of at most
\* kCapacity values
AfterLockCall(op_, res_, v_) ==
  [op |-> op_, res |-> res_, v |-> v_, before |-> lcall.held,
   held |-> IF op_ = "try_push"
              THEN (IF Len(lcall.held) < kLockingCapacity
                      THEN Append(lcall.held, v_) ELSE lcall.held)
              ELSE (IF lcall.held # <<>> THEN Tail(lcall.held)
                                         ELSE lcall.held),
   calls |-> lcall.calls + 1]

\* bool try_push(const T& v), line 65, and try_emplace, lines 50-57
LockingTryPush(v_) ==
  /\ lcall.calls < MaxLockCalls
  /\ IF LockingQueue_is_full(locking)
       THEN /\ locking' = locking
            /\ lcall' = AfterLockCall("try_push", FALSE, v_)
       ELSE /\ locking' = [locking EXCEPT
                             !.data_[locking.in_] = v_,
                             !.in_ = LockingQueue_inc(locking.in_)]
            /\ lcall' = AfterLockCall("try_push", TRUE, v_)
  /\ UNCHANGED <<varVars, fixVars, testVars, segVars>>

\* bool try_pop(T& v), lines 70-76; on false v is left as the caller had it
LockingTryPop ==
  /\ lcall.calls < MaxLockCalls
  /\ IF locking.in_ = locking.out_
       THEN /\ locking' = locking
            /\ lcall' = AfterLockCall("try_pop", FALSE, "indeterminate")
       ELSE /\ locking' = [locking EXCEPT
                             !.out_ = LockingQueue_inc(locking.out_)]
            /\ lcall' = AfterLockCall("try_pop", TRUE,
                                      locking.data_[locking.out_])
  /\ UNCHANGED <<varVars, fixVars, testVars, segVars>>

NextLocking ==
  \/ \E v_ \in 1..MaxLockValue : LockingTryPush(v_)
  \/ LockingTryPop

SpecLocking == InitLocking /\ [][NextLocking]_vars

(***************************************************************************)
(* Properties of Queue.                                                    *)
(***************************************************************************)
\* the values passed to a push or try_push that has begun and that has taken
\* a head ticket or has not yet returned
Started ==
  {tv[2] : tv \in ticketOf}
    \cup {floc[p].value :
            p \in {q \in Producers : floc[q].op \in {"push", "try_push"}}}

\* the places in the consumers' histories
Receipts == {ci \in Consumers \X (1..MaxPushFix) : ci[2] <= Len(got[ci[1]])}

\* how many times value val was received
TimesReceived(val) ==
  Cardinality({ci \in Receipts : got[ci[1]][ci[2]].value = val})

\* C2: no ghost reads: every value that pop or a successful try_pop handed
\* to a consumer was passed to a push or try_push that had begun; no value
\* was handed out twice; and every value whose push has returned is either
\* still stored in a slot or was handed to exactly one consumer.
C2_NoGhostReads ==
  /\ \A ci \in Receipts :
       /\ got[ci[1]][ci[2]].value \in Started
       /\ TimesReceived(got[ci[1]][ci[2]].value) = 1
  /\ \A val \in pushReturned :
       IF \E i \in DOMAIN slots_ : slots_[i].storage = val
         THEN TimesReceived(val) = 0
         ELSE TimesReceived(val) = 1

\* C2 case: the slots have been used a second time: a value pushed with a
\* ticket of the second round was handed to a consumer while another
\* returned push's value is still stored
C2_Witness ==
  /\ \E ci \in Receipts : got[ci[1]][ci[2]].ticket >= kInternalCapacity
  /\ \E val \in pushReturned : \E i \in DOMAIN slots_ : slots_[i].storage = val

\* C3: FIFO by ticket: the consumer that took tail ticket t received the
\* value of the producer that took head ticket t; and when push(a) had
\* returned before push(b) was invoked, no consumer received b before a.
C3_FifoByTicket ==
  /\ \A ci \in Receipts :
       <<got[ci[1]][ci[2]].ticket, got[ci[1]][ci[2]].value>> \in ticketOf
  /\ \A c \in Consumers : \A i, j \in 1..Len(got[c]) :
       i < j => <<got[c][j].value, got[c][i].value>> \notin precede

\* C3 case: one consumer has received a and then b, pushed by different
\* producers, push(a) having returned before push(b) was invoked
C3_Witness ==
  \E c \in Consumers : \E i, j \in 1..Len(got[c]) :
    /\ i < j
    /\ <<got[c][i].value, got[c][j].value>> \in precede
    /\ got[c][i].value[1] # got[c][j].value[1]

\* the slots that hold an element that was stored and not yet popped
StoredSlots ==
  {i \in DOMAIN slots_ : slots_[i].storage \notin {NoValue, Destroyed}}

\* no pop or try_pop has begun and no other thread is inside a call
OnlyPushesSoFar(p) ==
  /\ q_tail_ = 0
  /\ \A t \in Workers \ {p} : fpc[t] \in {"idle", "off"}

\* C4: the capacity bound: on an empty queue with no pops the first N
\* try_push calls return true and the next one returns false (a try_push
\* that returns true has taken one of the head tickets 0..N-1, one that
\* returns false found N elements); and in every reachable state at most
\* capacity() = N elements are stored and not yet popped.
C4_CapacityBound ==
  /\ \A p \in Producers :
       (fpc[p] = "done" /\ floc[p].op = "try_push" /\ OnlyPushesSoFar(p))
         => IF floc[p].result = "true"
              THEN q_head_ <= capacity
              ELSE q_head_ = capacity
  /\ Cardinality(StoredSlots) <= capacity

\* C7: a try_push call returns false if and only if, at some moment within
\* the call, the queue held capacity() elements (head - tail = N), the
\* element of the call itself not counted.
C7_TryPushFalseIffFull ==
  \A p \in Producers :
    (fpc[p] = "done" /\ floc[p].op = "try_push")
      => ((floc[p].result = "false") <=> sawFull[p])

RECURSIVE SumOperations(_)
SumOperations(S) ==
  IF S = {} THEN 0
  ELSE LET t == CHOOSE u \in S : TRUE
       IN num_operations[t] + SumOperations(S \ {t})

\* every thread of the benchmark has ended, every push has returned, and
\* exactly M successful pops were counted
C8_Finished ==
  /\ \A t \in Workers : fpc[t] = "joined"
  /\ SumOperations(Producers) = num_elements_to_push_
  /\ SumOperations(Consumers) = num_elements_to_push_
  /\ num_popped_elements_ = num_elements_to_push_

\* C8: progress and conservation: under weak fairness of every thread, with
\* the producers calling the blocking push M times in total and the
\* consumers retrying try_pop until M elements are popped, every push
\* returns and the run ends with exactly M successful pops.
C8_ProgressAndConservation == <>[]C8_Finished

\* C8 case: the run has ended and every consumer has popped an element
C8_Witness ==
  /\ C8_Finished
  /\ \A c \in Consumers : num_operations[c] > 0

\* every producer and consumer has returned, and every element that was
\* pushed has been handed to a consumer
C15_AllPopped ==
  /\ \A t \in Workers : fpc[t] \in {"idle", "off"}
  /\ \A tv \in ticketOf : TimesReceived(tv[2]) = 1

\* C15: emptiness at quiescence: after all producers and consumers have
\* returned and every pushed element has been popped, head_ = tail_, and
\* size() and empty(), called now, return 0 and true; for two producers
\* with one consumer and for one producer with two consumers.
C15_EmptyAtQuiescence ==
  C15_AllPopped =>
    /\ q_head_ = q_tail_
    /\ Queue_size(q_head_, q_tail_) = 0
    /\ Queue_empty(q_head_, q_tail_)

\* C15 case: quiescence after the slots have been used more than once
C15_Witness ==
  /\ C15_AllPopped
  /\ q_head_ > kInternalCapacity

\* C16: failed try operations change nothing: a try_push or a try_pop that
\* returns false, no other thread being in a call meanwhile, leaves head_,
\* tail_, the turn and the stored value of every slot and the caller's out
\* argument as they were when it was called; and only try_push and try_pop
\* return false.
C16_FailedTryChangesNothing ==
  \A t \in Workers :
    (fpc[t] = "done" /\ floc[t].result = "false") =>
      /\ floc[t].op \in {"try_push", "try_pop"}
      /\ fentry[t].kept =>
           /\ q_head_ = fentry[t].head
           /\ q_tail_ = fentry[t].tail
           /\ slots_ = fentry[t].slots
           /\ t \in Consumers => element[t] = fentry[t].v

\* C16 case: a try_pop has returned false from a queue that was used and
\* emptied, the caller's out argument holding the element of an earlier pop
C16_Witness ==
  \E c \in Consumers :
    /\ fpc[c] = "done"
    /\ floc[c].op = "try_pop"
    /\ floc[c].result = "false"
    /\ fentry[c].kept
    /\ element[c] # NoValue
    /\ q_head_ >= kInternalCapacity

\* the values pushed so far, and the place of each in the order of the
\* push calls: one more than the pushes that had returned when it was called
C17_Pushed == {tv[2] : tv \in ticketOf}

C17_Place(val) == Cardinality({a \in C17_Pushed : <<a, val>> \in precede}) + 1

OpenedAfterPush ==
  /\ seg["B"].life \in {"live", "crashed"}
  /\ seg["B"].when.pushed
  /\ seg["B"].granted.open
  /\ seg["B"].granted.map

\* process B has a valid view, and when it takes the bytes at offset 0 as
\* the queue it is not killed and the try_pop it has called returned true
\* with the record of process A
HandedOver ==
  /\ valid(seg["B"])
  /\ (sloc["B"].hasq /\ sloc["B"].arg = 0)
       => /\ seg["B"].life = "live"
          /\ sloc["B"].qcalls > 0
               => /\ sloc["B"].res = "true"
                  /\ buffer[TestPopper] = Expected(1, kChildMessage)

\* C18, as the claim has it: when process A has created the segment, placed
\* the queue at offset 0, pushed one record and exited, its segment object
\* destroyed, a process B that opens the name afterwards obtains a valid
\* view and its try_pop returns true with exactly that record
C18_HandOverAfterExit ==
  (OpenedAfterPush /\ ~seg["B"].when.alive) => HandedOver

\* C18, amended: a process B that opens the name, as the first to open it,
\* after the push and while the segment object of process A still exists,
\* obtains a valid view and its try_pop returns true with that record, also
\* when the segment object of process A is destroyed after the open
C18_HandOverWhileAlive ==
  (OpenedAfterPush /\ seg["B"].when.alive /\ seg["B"].when.first)
    => HandedOver

\* C18: process B has opened the name while process A was alive, process A
\* has exited, and the try_pop of process B has returned true
C18_Witness ==
  /\ OpenedAfterPush
  /\ seg["B"].when.alive
  /\ seg["B"].when.first
  /\ seg["A"].life = "destroyed"
  /\ sloc["B"].hasq
  /\ sloc["B"].arg = 0
  /\ sloc["B"].qcalls > 0
  /\ sloc["B"].res = "true"

\* C19: a destructor unlinks the name only of a segment constructed in mode
\* kCreate; the destructor of a segment constructed in mode kAccessExisting
\* unmaps the view of that segment and leaves the name linked, so that the
\* name can be opened as long as the segment of the creator exists
C19_OnlyCreatorUnlinks ==
  /\ \A P \in Procs :
       seg[P].life = "destroyed"
         => /\ seg[P].unlinked => seg[P].type = "kCreate"
            /\ (seg[P].type = "kAccessExisting" /\ seg[P].buffer_[1] = "view")
                 => seg[P].unmapped
  /\ (seg["A"].life = "live" /\ seg["A"].handle_ # kInvalidFileHandle)
       => shm.linked

\* the constructor of the segment of process P could not create or open
\* the mapping, or could not map the view
ConstructionFailed(P) ==
  /\ seg[P].life \in {"live", "destroyed"}
  /\ seg[P].handle_ = kInvalidFileHandle \/ seg[P].buffer_[1] # "view"

\* C20: when creating or opening the mapping fails, or mapping the view
\* fails, valid() is false; on such a segment Allocate, As and data return
\* null and change no state, and its destructor unmaps nothing and unlinks
\* nothing
C20_InvalidSegmentIsInert ==
  \A P \in Procs :
    ConstructionFailed(P)
      => /\ seg[P].life = "live"
              => /\ ~valid(seg[P])
                 /\ data(seg[P]) = nullptr
                 /\ seg[P].size_ = 0
                 /\ sloc[P].op \in {"Allocate", "As"}
                      => sloc[P].ret = nullptr
         /\ seg[P].life = "destroyed"
              => /\ ~seg[P].unmapped
                 /\ ~seg[P].unlinked

\* the segment of P is a create-mode segment with a mapped view, and the
\* latest call on it was Allocate
AllocateReturned(P) ==
  /\ seg[P].life = "live"
  /\ seg[P].type = "kCreate"
  /\ seg[P].buffer_[1] = "view"
  /\ sloc[P].op = "Allocate"

\* the ranges [a[1], a[1] + a[2]) and [b[1], b[1] + b[2]) of offsets share
\* no byte
Disjoint(a, b) == a[1] + a[2] <= b[1] \/ b[1] + b[2] <= a[1]

\* C21: Allocate(n) on a create-mode segment whose bump offset is s returns
\* base + s and sets the offset to s + n when s + n <= capacity, and
\* otherwise returns null and leaves the offset unchanged; the successful
\* allocations are adjacent in call order, pairwise disjoint, and the first
\* is at offset 0
C21_BumpAllocation ==
  \A P \in Objects :
    AllocateReturned(P)
      => /\ IF sloc[P].before + sloc[P].arg <= seg[P].capacity_
              THEN /\ sloc[P].ret = PtrAdd(seg[P].buffer_, sloc[P].before)
                   /\ seg[P].size_ = sloc[P].before + sloc[P].arg
              ELSE /\ sloc[P].ret = nullptr
                   /\ seg[P].size_ = sloc[P].before
         /\ seg[P].allocs # <<>> => seg[P].allocs[1][1] = 0
         /\ \A i \in 1..(Len(seg[P].allocs) - 1) :
              seg[P].allocs[i + 1][1]
                = seg[P].allocs[i][1] + seg[P].allocs[i][2]
         /\ \A i, j \in 1..Len(seg[P].allocs) :
              i # j => Disjoint(seg[P].allocs[i], seg[P].allocs[j])

\* some object that is alive holds the mapping of constructor call id
HeldAlive(id) == \E P \in Objects : seg[P].life = "live" /\ seg[P].id = id

\* the mapping of constructor call id is released exactly once when the
\* last object that held it is destroyed, and not before
ReleasedOnce(id) ==
  /\ id \in shm.views
       => CopiesIn(id, shm.unmapped) = (IF HeldAlive(id) THEN 0 ELSE 1)
  /\ id \in shm.handles
       => CopiesIn(id, shm.destroyed) = (IF HeldAlive(id) THEN 0 ELSE 1)

\* C22: after a move from segment A, A.valid() is false and destroying A
\* neither unmaps the view nor unlinks the name; the destination carries
\* the capacity, the mapping and the bump offset of A and is valid when A
\* was; the mapping that the destination of a move-assignment held before,
\* and the mapping that A held, are each released exactly once, the latter
\* when the destination is destroyed
C22_MoveSemantics ==
  /\ \A S \in Objects :
       seg[S].moved
         => /\ seg[S].life = "live" => ~valid(seg[S])
            /\ seg[S].life = "destroyed"
                 => ~seg[S].unmapped /\ ~seg[S].unlinked
  /\ \A D \in Objects :
       sloc[D].op = "move"
         => /\ seg[D].life = "live"
            /\ seg[D].capacity_ = sloc[D].arg
            /\ seg[D].buffer_ = sloc[D].ret
            /\ seg[D].size_ = sloc[D].before
            /\ sloc[D].ret[1] = "view"
                 => valid(seg[D]) /\ seg[D].id \in shm.views
  /\ \A P, Q \in Objects :
       (P # Q /\ seg[P].life = "live" /\ seg[Q].life = "live"
          /\ seg[P].id \in shm.views)
         => seg[P].id # seg[Q].id
  /\ \A id \in shm.views \cup shm.handles : ReleasedOnce(id)

\* C22: the segment of process B is move-assigned to the segment of process
\* A, both with a view, and both objects are destroyed afterwards
C22_Witness ==
  /\ seg["B"].moved
  /\ seg["B"].life = "destroyed"
  /\ seg["A"].life = "destroyed"
  /\ seg["A"].id = <<"B", 1>>
  /\ {<<"A", 1>>, <<"B", 1>>} \subseteq shm.views
  /\ shm.moves = 1

\* the segment of P has a mapped view, and the latest call on it was
\* As<int>
AsReturned(P) ==
  /\ seg[P].life = "live"
  /\ seg[P].buffer_[1] = "view"
  /\ sloc[P].op = "As"

\* C23: As<T>(offset) returns null if and only if offset + sizeof(T) >
\* capacity, and otherwise base + offset, for every offset; it does not
\* change the bump offset; As<T>(0) on any view is the address of the bytes
\* of the first allocation of the creator
C23_TypedView ==
  \A P \in Objects :
    AsReturned(P)
      => /\ sloc[P].ret = (IF sloc[P].arg + sizeof("int") > seg[P].capacity_
                             THEN nullptr
                             ELSE PtrAdd(seg[P].buffer_, sloc[P].arg))
         /\ sloc[P].ret = nullptr
              <=> sloc[P].arg + sizeof("int") > seg[P].capacity_
         /\ seg[P].size_ = sloc[P].before
         /\ \A Q \in Objects :
              (sloc[P].arg = 0 /\ seg[Q].life = "live"
                 /\ seg[Q].type = "kCreate" /\ seg[Q].buffer_[1] = "view"
                 /\ seg[Q].allocs # <<>>)
                => sloc[P].ret = PtrAdd(seg[Q].buffer_, seg[Q].allocs[1][1])

\* C24: Allocate on a segment that was opened in mode kAccessExisting ends
\* in a fatal assertion: no such call returns, none has handed out a range
\* of the segment, and the bump offset of the segment stays 0
C24_NoAllocateOnOpened ==
  \A P \in Objects :
    (seg[P].life = "live" /\ seg[P].type = "kAccessExisting"
       /\ seg[P].buffer_[1] = "view")
      => /\ sloc[P].op # "Allocate"
         /\ seg[P].allocs = <<>>
         /\ seg[P].size_ = 0

\* C25: after any sequence of Allocate calls of any sizes, successful or
\* failing, the bump offset of every segment is at least 0 and at most the
\* capacity of the segment
C25_BumpWithinCapacity ==
  \A P \in Objects :
    /\ 0 <= seg[P].size_
    /\ seg[P].size_ <= seg[P].capacity_

\* C25: the segment of process A is full after a successful Allocate, and
\* its latest Allocate has failed
C25_Witness ==
  /\ seg["A"].life = "live"
  /\ seg["A"].size_ = seg["A"].capacity_
  /\ seg["A"].capacity_ > 0
  /\ sloc["A"].op = "Allocate"
  /\ sloc["A"].ret = nullptr

(***************************************************************************)
(* Properties of LockingQueue.                                             *)
(***************************************************************************)
\* C26: LockingQueue<T, N> is a FIFO bounded at exactly N elements for
\* every sequence of try_push and try_pop: try_push returns false if and
\* only if N elements are held, try_pop returns false if and only if none
\* is held, a successful try_pop returns the value pushed first among
\* those held, also after the indices have wrapped
C26_BoundedFifo ==
  /\ Len(lcall.held) <= kLockingCapacity
  /\ lcall.op = "try_push"
       => (~lcall.res <=> Len(lcall.before) = kLockingCapacity)
  /\ lcall.op = "try_pop"
       => /\ ~lcall.res <=> lcall.before = <<>>
          /\ lcall.res => lcall.v = Head(lcall.before)

\* C26: the queue was filled and drained, and the try_push after it has
\* returned true and has wrapped in_
C26_Witness ==
  /\ lcall.op = "try_push"
  /\ lcall.res
  /\ lcall.before = <<>>
  /\ locking.in_ = 0
  /\ locking.out_ = kLockingCapacity
  /\ lcall.calls > 2 * kLockingCapacity

(***************************************************************************)
(* Properties of MpmcQueue.                                                *)
(***************************************************************************)
\* every thread is outside a call
Quiescent == \A t \in Threads : vpc[t] \in {"idle", "off"}

\* how many successful try_pop calls returned record id
C1_Delivered(id) == CopiesIn(Expected(id, sent[id]), received)

\* C1: exactly-once delivery under concurrent producers and consumers:
\* every buffer filled by a successful try_pop is one pushed record, with
\* its length and its bytes; no record is returned twice; and once every
\* thread has returned and try_pop has nothing more to return (the header
\* at read_ is not positive), every record whose try_push returned true has
\* been returned by exactly one try_pop.
C1_ExactlyOnceDelivery ==
  /\ \A b \in BagToSet(received) :
       \E id \in 1..Len(sent) : b = Expected(id, sent[id])
  /\ \A id \in 1..Len(sent) : C1_Delivered(id) <= 1
  /\ (Quiescent /\ ~aborted /\ HeaderSize(read_) <= 0)
       => \A id \in accepted : C1_Delivered(id) = 1

\* C5: the three-cursor invariant: in every reachable state of every
\* interleaving of try_push, try_pop, shrink and size,
\* tail_ <= read_ <= head_ with the low flag bits of head_ masked out.
C5_ThreeCursors ==
  /\ tail_ <= read_
  /\ read_ <= head_ - (head_ % 4)

\* C5 case: the three cursors are pairwise different, tail_ has moved, and a
\* producer is between its CAS on head_ and its stabilising store
C5_Witness ==
  /\ 0 < tail_
  /\ tail_ < read_
  /\ read_ < head_ - (head_ % 4)
  /\ head_ % 2 = 0
  /\ \E c \in Consumers : vpc[c] = "shrink_cas"

\* C6: the sequential round trip: a try_pop that returns true is the i-th
\* successful one and leaves in the caller's buffer the i-th pushed record,
\* with its length and its bytes; a try_pop returns false only when every
\* pushed record has been popped; and after as many pops as pushes size()
\* is 0, which is what empty() tests.
C6_SequentialRoundTrip ==
  /\ \A c \in Consumers :
       vpc[c] = "done" =>
         IF vloc[c].result = "true"
           THEN /\ num_pops_ <= Len(sent)
                /\ buffer[c] = Expected(num_pops_, sent[num_pops_])
           ELSE num_pops_ = Cardinality(accepted)
  /\ \A o \in Observers :
       (vpc[o] = "done" /\ num_pops_ = Cardinality(accepted))
         => vloc[o].value = 0

\* round n up to a multiple of the cache line
C9_RoundUp(n) == ((n + kCacheLineSize - 1) \div kCacheLineSize) * kCacheLineSize

\* the tail once every tombstoned block at tail has been reclaimed, in the
\* ring mem
RECURSIVE C9_Reclaimed(_, _, _)
C9_Reclaimed(mem, tail, n) ==
  LET size == mem[(tail % kCapacity) \div kCacheLineSize].size IN
    IF n = 0 \/ size >= 0 THEN tail
    ELSE C9_Reclaimed(mem, tail + C9_RoundUp(SizeofHeader - size), n - 1)

\* the space test of the claim on what the call found when it began
C9_NoSpace(e) ==
  (e.head - (e.head % 2)) + C9_RoundUp(e.len + SizeofHeader) + SizeofHeader
    - C9_Reclaimed(e.data, e.tail, NumLines) > kCapacity

\* C9: with no step of another thread during the call, try_push returns
\* false if and only if, after reclaiming every tombstoned block at tail,
\* head + block + sizeof(Header) - tail > N, the block being the length plus
\* sizeof(Header) rounded up to the cache line and head being masked; and a
\* try_push that returns false has written no header and no payload byte
\* and has left head_ and read_ as they were.
C9_PushFailsIffNoSpace ==
  \A p \in Producers :
    vpc[p] = "done" =>
      /\ (vloc[p].result = "false") <=> C9_NoSpace(entry[p])
      /\ vloc[p].result = "false" =>
           /\ data_ = entry[p].data
           /\ head_ = entry[p].head
           /\ read_ = entry[p].read

\* C9 case: a try_push has returned false after it had reclaimed the
\* tombstoned blocks that it found at tail
C9_Witness ==
  \E p \in Producers :
    /\ vpc[p] = "done"
    /\ vloc[p].result = "false"
    /\ C9_NoSpace(entry[p])
    /\ entry[p].tail < tail_

\* the queue held no record when the call of thread t began
C10_WasEmpty(t) == entry[t].read = entry[t].head - (entry[t].head % 2)

\* C10: try_pop on a queue that holds no record returns false without
\* blocking (its spin on head_ == read does not hold it), and leaves the
\* caller's buffer and the cursors head_, read_ and tail_ as they were.
C10_PopOnEmpty ==
  \A c \in Consumers :
    /\ (vpc[c] = "pop_spin" /\ C10_WasEmpty(c)) => head_ # vloc[c].read
    /\ (vpc[c] = "done" /\ C10_WasEmpty(c)) =>
         /\ vloc[c].result = "false"
         /\ buffer[c] = entry[c].buffer
         /\ head_ = entry[c].head
         /\ read_ = entry[c].read
         /\ tail_ = entry[c].tail
         /\ data_ = entry[c].data

\* C10 case: a try_pop has returned from a queue that earlier pops had
\* emptied, the caller's buffer still holding an earlier record
C10_Witness ==
  \E c \in Consumers :
    /\ vpc[c] = "done"
    /\ C10_WasEmpty(c)
    /\ num_pops_ > 0
    /\ buffer[c].len > 0

\* a record of len bytes fits an empty ring: its block and the header of
\* the block that follows
C11_Fits(len) ==
  C9_RoundUp(len + SizeofHeader) + SizeofHeader <= kCapacity

\* what holds once the first try_push has returned false, K being pushes
\* and L the length of data_to_push; positive says for which L the claim
\* has K > 0
C11_AfterFirstFalse(positive) ==
  tpc = "after" =>
    /\ data_to_push.len \in positive => pushes > 0
    /\ pushes * (data_to_push.len + SizeofHeader) <= kCapacity
    /\ (vpc[TestThread] = "done" /\ vloc[TestThread].result = "true")
         => num_pops_ > 0

\* C11 as stated: capacity pressure: pushing records of one length L into
\* an empty queue of N bytes with no pop, some try_push eventually returns
\* false; the number K of records accepted before it satisfies K > 0 and
\* K * (L + sizeof(Header)) <= N; and a try_push after the first false
\* returns true only if a try_pop has succeeded.
C11_CapacityPressure ==
  /\ <>(tpc = "after")
  /\ [](C11_AfterFirstFalse({d.len : d \in FillInputs}))

\* C11 amended: the same, with K > 0 only for a length L that fits the
\* ring: L + sizeof(Header) rounded up to the cache line, plus
\* sizeof(Header), is at most N.  For a longer record K = 0.
C11_CapacityPressureOfFitting ==
  /\ <>(tpc = "after")
  /\ [](C11_AfterFirstFalse({d.len : d \in {e \in FillInputs : C11_Fits(e.len)}}))

\* C11 case: the ring took K > 0 records, the first false ended the loop,
\* and a further try_push has returned false before any pop
C11_Witness ==
  /\ tpc = "after"
  /\ pushes > 0
  /\ num_pops_ = 0
  /\ vpc[TestThread] = "done"
  /\ vloc[TestThread].result = "false"
\* C12: bounded occupancy: in every reachable state of every interleaving,
\* head_ with its flag bits masked out, minus tail_, is at most N: the
\* blocks not yet reclaimed never exceed the ring.
C12_BoundedOccupancy ==
  (head_ - (head_ % 4)) - tail_ <= kCapacity

\* C12 case: the ring is as full as try_push lets it become, after tail_
\* has moved: all cache lines but one are taken
C12_Witness ==
  /\ tail_ > 0
  /\ (head_ - (head_ % 4)) - tail_ = kCapacity - kCacheLineSize
\* C13: size() returns head_ with its flag bits cleared, minus tail_, as
\* they are after the shrink that size() runs first: the total length of
\* the blocks not yet reclaimed.  (No other thread runs during the call, so
\* the cursors at the return are the ones that size() has loaded.)
C13_SizeIsHeadMinusTail ==
  \A o \in Observers :
    (vpc[o] = "done" /\ vloc[o].result = "size")
      => vloc[o].value = (head_ - (head_ % 4)) - tail_
\* every thread has returned and every record that was pushed has been
\* taken by a try_pop
C14_AllPopped ==
  /\ Quiescent
  /\ ~aborted
  /\ num_pops_ = num_pushs_

C27_PayloadInsideRing ==
  /\ ~oob
  /\ \A b \in BagToSet(received) :
       \E id \in 1..Len(sent) : b = Expected(id, sent[id])

\* the block of record id: its first offset and the offset behind it, the
\* records being numbered in the order of their blocks
RECURSIVE BlockStart(_)
BlockStart(id) ==
  IF id = 1 THEN 0
  ELSE BlockStart(id - 1)
         + align_to_cache_line(sent[id - 1].len + SizeofHeader)

BlockEnd(id) ==
  BlockStart(id) + align_to_cache_line(sent[id].len + SizeofHeader)

\* C28: the blocks between tail and head occupy pairwise disjoint ring
\* positions, and every byte between tail and head belongs to exactly one
\* of them: the blocks follow one another from tail_, which is the start of
\* a block, to head, and none is a whole ring behind a block that tail_ has
\* not passed.  A producer writes the header behind its block, and the
\* bytes of its block, only where no other block lies that tail_ has not
\* passed
C28_BlocksNeverOverlap ==
  /\ tail_ <= BitAnd(head_, mask)
  /\ BitAnd(head_, mask) = (IF sent = <<>> THEN 0 ELSE BlockEnd(Len(sent)))
  /\ tail_ \in {0} \cup {BlockEnd(i) : i \in 1..Len(sent)}
  /\ \A i, j \in 1..Len(sent) :
       (i < j /\ BlockStart(i) >= tail_)
         => BlockEnd(j) - BlockStart(i) <= kCapacity
  /\ \A p \in Producers :
       /\ vpc[p] = "push_zero"
            => vloc[p].new_head + SizeofHeader - tail_ <= kCapacity
       /\ vpc[p] \in {"push_zero", "push_stab", "push_copy", "push_publish"}
            => /\ BlockStart(vloc[p].id) = BitAnd(vloc[p].head, mask)
               /\ BlockEnd(vloc[p].id) = vloc[p].new_head
               /\ BlockStart(vloc[p].id) >= tail_

\* C28: a producer has taken the block that ends at the end of the ring and
\* is to write the header at the start of the ring, while tail_ has passed
\* the first block and not the block before that of the producer
C28_Witness ==
  \E p \in Producers :
    /\ vpc[p] = "push_zero"
    /\ vloc[p].new_head = kCapacity
    /\ 0 < tail_
    /\ tail_ < BitAnd(vloc[p].head, mask)

\* C29: in every state in which the stabilising bit of head_ is set, the
\* header at the masked head has size 0; a consumer or a reclaimer that is
\* to load the header at the masked head finds size 0 there, not the size
\* an earlier block has left at that place of the ring
C29_HeaderPreZeroed ==
  /\ head_ % 2 = 1 => HeaderSize(head_) = 0
  /\ \A t \in Threads :
       \/ vpc[t] = "pop_size" /\ vloc[t].read = BitAnd(head_, mask)
       \/ vpc[t] = "shrink_size" /\ vloc[t].tail = BitAnd(head_, mask)
       => HeaderSize(head_) = 0

\* C29: head_ is stabilised at the start of the ring for the second time,
\* where the header of the first block was published and tombstoned
C29_Witness ==
  /\ head_ = kCapacity + 1
  /\ tail_ > 0
  /\ \E t \in Threads :
       vpc[t] = "shrink_size" /\ vloc[t].tail = BitAnd(head_, mask)

\* the producer is between its CAS on head_ and its stabilising store
InWindow(p) == vpc[p] \in {"push_zero", "push_stab"}

\* the producer holds a block it has not published yet
Reserved(p) ==
  vpc[p] \in {"push_zero", "push_stab", "push_copy", "push_publish"}

\* C30: the CAS of a producer on head_ succeeds only from a value whose
\* stabilising bit is set, and the bit stays clear until the stabilising
\* store of that producer; at most one producer at a time is between its
\* CAS and its stabilising store; in that window no other thread is to
\* store to the header at the new head; and the blocks that two producers
\* have reserved do not overlap in the ring
C30_StabilisingBitExclusion ==
  /\ \A p \in Producers :
       InWindow(p)
         => /\ vloc[p].head % 2 = 1
            /\ head_ = vloc[p].new_head
            /\ head_ % 2 = 0
            /\ \A q \in Producers \ {p} : ~InWindow(q)
            /\ \A t \in Threads \ {p} :
                 /\ vpc[t] = "push_publish"
                      => get_header(vloc[t].head) # get_header(head_)
                 /\ vpc[t] = "pop_tomb"
                      => get_header(vloc[t].read) # get_header(head_)
  /\ (\A p \in Producers : ~InWindow(p)) => head_ % 2 = 1
  /\ \A p, q \in Producers :
       (p # q /\ Reserved(p) /\ Reserved(q)
          /\ vloc[p].new_head <= vloc[q].new_head)
         => /\ vloc[p].new_head <= BitAnd(vloc[q].head, mask)
            /\ vloc[q].new_head - BitAnd(vloc[p].head, mask) <= kCapacity

\* C30: a producer is between its CAS and its stabilising store, and
\* another producer, which has loaded head_ in that window, is to try its
\* CAS from the value with the bit set
C30_Witness ==
  \E p, q \in Producers :
    /\ p # q
    /\ vpc[p] = "push_stab"
    /\ vpc[q] = "push_cas"
    /\ vloc[q].head = vloc[p].new_head + 1

(***************************************************************************)
(* Properties of Queue: the turn protocol and the cursors.                 *)
(***************************************************************************)
\* the thread owns a slot: a producer between the turn it waited for and
\* its store to turn, a consumer likewise
InSlot(t) ==
  \/ t \in Producers /\ fpc[t] \in {"construct", "turn_store"}
  \/ t \in Consumers /\ fpc[t] \in {"move", "turn_store"}

\* the ticket of the thread's call
TicketOfCall(t) == IF t \in Producers THEN floc[t].head ELSE floc[t].tail

\* what holds in every state: the owner of a slot sees the turn of its
\* ticket, a slot has one owner, a producer constructs in empty storage
\* and a consumer moves out the value of the producer with its ticket
C31_Owners ==
  /\ \A p \in Producers :
       InSlot(p)
         => /\ slots_[Queue_idx(floc[p].head)].turn
                 = 2 * Queue_turn(floc[p].head)
            /\ fpc[p] = "construct"
                 => slots_[Queue_idx(floc[p].head)].storage
                      \in {NoValue, Destroyed}
  /\ \A c \in Consumers :
       InSlot(c)
         => /\ slots_[Queue_idx(floc[c].tail)].turn
                 = 2 * Queue_turn(floc[c].tail) + 1
            /\ fpc[c] = "move"
                 => <<floc[c].tail, slots_[Queue_idx(floc[c].tail)].storage>>
                      \in ticketOf
  /\ \A t, u \in Workers :
       (t # u /\ InSlot(t) /\ InSlot(u))
         => Queue_idx(TicketOfCall(t)) # Queue_idx(TicketOfCall(u))

\* what holds of every step: a turn stays or goes up by one, and it goes
\* up by the store of the slot's owner, to the turn after the owner's;
\* the storage changes by the construct or the move of the slot's owner
C31_Steps ==
  \A i \in DOMAIN slots_ :
    /\ slots_'[i].turn \in {slots_[i].turn, slots_[i].turn + 1}
    /\ slots_'[i].turn # slots_[i].turn
         => \E t \in Workers :
              /\ InSlot(t) /\ fpc[t] = "turn_store" /\ fpc'[t] = "done"
              /\ Queue_idx(TicketOfCall(t)) = i
              /\ slots_'[i].turn =
                   IF t \in Producers THEN 2 * Queue_turn(floc[t].head) + 1
                   ELSE 2 * Queue_turn(floc[t].tail) + 2
    /\ slots_'[i].storage # slots_[i].storage
         => \E t \in Workers :
              /\ InSlot(t) /\ fpc[t] \in {"construct", "move"}
              /\ fpc'[t] = "turn_store"
              /\ Queue_idx(TicketOfCall(t)) = i

\* C31: the turn protocol: each slot's turn starts at 0 and goes up by one
\* per step; a producer with ticket t writes the storage only while the
\* turn is 2*epoch(t) and then sets it to 2*epoch(t)+1, a consumer with
\* ticket t reads only while it is 2*epoch(t)+1 and then sets it to
\* 2*epoch(t)+2; no two threads own the same slot at the same time, a
\* consumer reads what the producer of its ticket wrote, and a producer
\* never writes over an element that was not consumed
C31_TurnProtocol ==
  /\ \A i \in DOMAIN slots_ : slots_[i].turn = 0
  /\ [](C31_Owners)
  /\ [][C31_Steps]_vars

\* C31 case: a producer, whose ticket is of the second round, is to write
\* a slot while a consumer is moving the element out of the other slot
C31_Witness ==
  \E p \in Producers : \E c \in Consumers :
    /\ fpc[p] = "construct"
    /\ floc[p].head >= kInternalCapacity
    /\ fpc[c] = "move"

\* what holds of every step that moves read_: it is the CAS of the
\* consumer that makes the k-th pop, from the start of the block that the
\* k-th CAS on head_ reserved to its end, and the record is published
C32_Acquire ==
  read_' # read_
    => LET k == num_pops_ + 1 IN
         /\ num_pops_' = k
         /\ k <= Len(sent)
         /\ k \in accepted
         /\ read_ = BlockStart(k)
         /\ read_' = BlockEnd(k)
         /\ \E c \in Consumers :
              /\ vpc[c] = "pop_cas" /\ vpc'[c] = "pop_copy"
              /\ vloc[c].read = BlockStart(k)
              /\ vloc[c].size = sent[k].len

\* a consumer that finds the block at read_ unpublished returns false
C32_ReturnsFalse ==
  \A c \in Consumers :
    (/\ vpc[c] = "pop_size" /\ vpc'[c] # "pop_size"
     /\ vloc[c].read = read_
     /\ (num_pops_ + 1) \notin accepted)
      => vpc'[c] = "idle"

\* a consumer holds a record only when every record before it in the ring
\* was published
C32_NoneSkipped ==
  /\ \A i \in 1..num_pops_ : i \in accepted
  /\ \A c \in Consumers :
       vpc[c] \in {"pop_copy", "pop_tomb"}
         => \E k \in 1..num_pops_ :
              /\ vloc[c].read = BlockStart(k)
              /\ vloc[c].new_read = BlockEnd(k)

\* C32: the consumption order: the k-th successful CAS on read_ takes
\* exactly the block that the k-th successful CAS on head_ reserved; a
\* record published later in the ring is never returned while a block
\* before it is unpublished: try_pop returns false instead
C32_ConsumptionOrder ==
  /\ [](C32_NoneSkipped)
  /\ [][C32_Acquire /\ C32_ReturnsFalse]_vars

\* C32 case: the second record is published and the first is reserved and
\* unpublished, and a consumer is to load the header at read_
C32_Witness ==
  /\ Len(sent) >= 2
  /\ 1 \notin accepted
  /\ 2 \in accepted
  /\ \E c \in Consumers : vpc[c] = "pop_size" /\ vloc[c].read = read_

\* the thread is inside shrink
InShrink(pcs, t) == pcs[t] \in {"shrink_tail", "shrink_size", "shrink_cas"}

\* what holds of every step that moves tail_: it is the CAS of a thread in
\* shrink, from the tail whose header the thread saw negative, over the
\* block of a consumed record, whose tombstone the header holds
C33_Reclaim ==
  tail_' # tail_
    => \E t \in Threads : \E k \in 1..num_pops_ :
         /\ vpc[t] = "shrink_cas" /\ vpc'[t] = "shrink_tail"
         /\ vloc[t].tail = tail_
         /\ vloc[t].size < 0
         /\ vloc[t].size = HeaderSize(tail_)
         /\ vloc[t].size = -sent[k].len
         /\ tail_ = BlockStart(k)
         /\ tail_' = BlockEnd(k)
         /\ tail_' = tail_ + align_to_cache_line(sent[k].len + SizeofHeader)

\* shrink returns at the first header that is not negative, and on a CAS
\* that it loses
C33_Stops ==
  \A t \in Threads :
    /\ (/\ vpc[t] = "shrink_size" /\ vpc'[t] # "shrink_size"
        /\ HeaderSize(vloc[t].tail) >= 0)
         => ~InShrink(vpc', t)
    /\ (/\ vpc[t] = "shrink_cas" /\ vpc'[t] # "shrink_cas"
        /\ tail_ # vloc[t].tail)
         => ~InShrink(vpc', t) /\ tail_' = tail_

\* tail_ is at or before every block that is reserved, published and not
\* consumed, or acquired by a consumer that is to store the tombstone
C33_NotPassed ==
  /\ \A p \in Producers :
       Reserved(p) => tail_ <= BitAnd(vloc[p].head, mask)
  /\ \A k \in (num_pops_ + 1)..Len(sent) : tail_ <= BlockStart(k)
  /\ \A c \in Consumers :
       vpc[c] \in {"pop_copy", "pop_tomb"} => tail_ <= vloc[c].read

\* C33: the reclamation rule: shrink moves tail_ only by a CAS from the
\* tail value whose header it saw with size < 0, forward by exactly the
\* aligned size of that tombstoned block, and stops at the first header
\* with size >= 0 or on a lost CAS; tail_ never passes a block that is
\* reserved, published and not consumed, or acquired by a consumer that
\* has not yet stored the tombstone
C33_ReclamationRule ==
  /\ [](C33_NotPassed)
  /\ [][C33_Reclaim /\ C33_Stops]_vars

\* C33 case: a thread in shrink is to CAS tail_ over a tombstoned block,
\* and the block behind it is held by a consumer that has not stored its
\* tombstone
C33_Witness ==
  \E t \in Threads : \E c \in Consumers :
    /\ vpc[t] = "shrink_cas"
    /\ vloc[t].tail = tail_
    /\ vpc[c] = "pop_tomb"
    /\ vloc[c].read = ShrinkNewTail(vloc[t].tail, vloc[t].size)

(***************************************************************************)
(* MpmcQueue under a scheduler: every thread that is not suspended takes   *)
(* a step of its call sooner or later.                                     *)
(***************************************************************************)
\* the records that the producers push in a behaviour of the scheduled
\* specifications
MaxPushLive == 2

\* the steps of thread t: in try_push, try_pop, size and the shrink that
\* they call
ThreadSteps(t) ==
  \/ /\ t \in Producers
     /\ \/ PushBegin(t, Inputs, MaxPushLive, FALSE)
        \/ PushLoadTail(t)
        \/ PushLoadHead(t)
        \/ PushCas(t)
        \/ PushZeroNext(t)
        \/ PushStabilise(t)
        \/ PushCopy(t)
        \/ PushPublish(t, "idle")
  \/ ShrinkLoadTail(t)
  \/ ShrinkLoadSize(t, "idle")
  \/ ShrinkCas(t, "idle")
  \/ /\ t \in Consumers
     /\ \/ PopBegin(t, FALSE)
        \/ PopSpin(t)
        \/ PopLoadSize(t, "idle")
        \/ PopCas(t, "idle")
        \/ PopCopy(t)
        \/ PopTombstone(t)
  \/ /\ t \in Observers
     /\ \/ SizeBegin(t)
        \/ SizeLoadFirst(t)
        \/ SizeLoadSecond(t, "idle")

NextVarLive ==
  \/ \E p \in Producers : PushBegin(p, Inputs, MaxPushLive, FALSE)
  \/ \E p \in Producers : PushLoadTail(p)
  \/ \E p \in Producers : PushLoadHead(p)
  \/ \E p \in Producers : PushCas(p)
  \/ \E p \in Producers : PushZeroNext(p)
  \/ \E p \in Producers : PushStabilise(p)
  \/ \E p \in Producers : PushCopy(p)
  \/ \E p \in Producers : PushPublish(p, "idle")
  \/ \E t \in Threads : ShrinkLoadTail(t)
  \/ \E t \in Threads : ShrinkLoadSize(t, "idle")
  \/ \E t \in Threads : ShrinkCas(t, "idle")
  \/ \E c \in Consumers : PopBegin(c, FALSE)
  \/ \E c \in Consumers : PopSpin(c)
  \/ \E c \in Consumers : PopLoadSize(c, "idle")
  \/ \E c \in Consumers : PopCas(c, "idle")
  \/ \E c \in Consumers : PopCopy(c)
  \/ \E c \in Consumers : PopTombstone(c)
  \/ \E o \in Observers : SizeBegin(o)
  \/ \E o \in Observers : SizeLoadFirst(o)
  \/ \E o \in Observers : SizeLoadSecond(o, "idle")

\* the scheduler may suspend one thread for ever, at any point; every
\* other thread that can take a step eventually takes one
SpecVarSuspend ==
  /\ InitVar
  /\ [][NextVarLive]_vars
  /\ \E s \in Threads : \A t \in Threads \ {s} : WF_vars(ThreadSteps(t))

\* the thread is inside a call of try_push, the shrink it calls included
InTryPush(p) ==
  \/ vpc[p] \in {"push_tail", "push_head", "push_cas", "push_zero",
                  "push_stab", "push_copy", "push_publish"}
  \/ InShrink(vpc, p) /\ vloc[p].caller = "push"

\* C34: lock-freedom of try_push: with one thread suspended for ever at
\* any point inside try_push, try_pop or shrink, every try_push call of
\* every other thread, that is of every thread that goes on taking steps,
\* returns after finitely many of its own steps: no try_push waits for
\* the progress of another thread
C34_TryPushLockFree ==
  \A p \in Producers :
    WF_vars(ThreadSteps(p)) => (InTryPush(p) ~> ~InTryPush(p))

\* a thread is inside a call of try_push, try_pop, shrink or size
InCall(t) == vpc[t] \notin {"idle", "off", "done"}

\* every thread that is inside a call is scheduled again; when a call is
\* made is left to the caller
SpecVarLive ==
  /\ InitVar
  /\ [][NextVarLive]_vars
  /\ \A t \in Threads : WF_vars(InCall(t) /\ ThreadSteps(t))

\* C35: under weak fairness of every thread, every call of try_push,
\* try_pop, shrink and size returns: neither the spin of try_pop on
\* head == read nor the retry loop of try_push runs for ever
C35_EveryCallReturns ==
  \A t \in Threads : InCall(t) ~> ~InCall(t)

\* a producer is back at the top of its retry loop after a lost CAS while
\* a consumer is at the spin of try_pop
C35_Witness ==
  /\ \E p \in Producers : vpc[p] = "push_tail"
  /\ \E c \in Consumers : vpc[c] = "pop_spin"
  /\ num_pushs_ >= 1

(***************************************************************************)
(* Properties of MpmcQueue::try_pop, step by step.                         *)
(***************************************************************************)
\* the step is one of thread c
StepOf(c) == vpc'[c] # vpc[c]

\* the two places where try_pop returns false: line 93 with size <= 0 and
\* line 107 after the CAS on read_ has lost
PopFails(c) ==
  \/ vpc[c] = "pop_size" /\ HeaderSize(vloc[c].read) <= 0
  \/ vpc[c] = "pop_cas" /\ read_ # vloc[c].read

C36_FailedPop ==
  \A c \in Consumers :
    /\ StepOf(c) /\ (vpc[c] \in {"idle", "pop_spin"} \/ PopFails(c))
         => /\ UNCHANGED <<read_, tail_, head_, data_>>
            /\ buffer'[c] = buffer[c]
    /\ StepOf(c) /\ PopFails(c) => vpc'[c] = "idle"

C36_SuccessfulPop ==
  \A c \in Consumers :
    /\ StepOf(c) /\ vpc[c] = "pop_size" /\ ~PopFails(c)
         => /\ vpc'[c] = "pop_cas"
            /\ vloc'[c].size = HeaderSize(vloc[c].read)
            /\ UNCHANGED <<read_, tail_, head_, data_, buffer>>
    /\ StepOf(c) /\ vpc[c] = "pop_cas" /\ ~PopFails(c)
         => /\ vpc'[c] = "pop_copy"
            /\ read_' = (read_ + align_to_cache_line(
                           (HeaderSize(read_) + SizeofHeader) % SizeMod))
                        % SizeMod
    /\ StepOf(c) /\ vpc[c] = "pop_copy"
         => buffer'[c].len = HeaderSize(vloc[c].read)
    /\ StepOf(c) /\ vpc[c] = "pop_tomb"
         => data_' = [data_ EXCEPT
              ![LineOf(get_header(vloc[c].read))].size = -buffer[c].len]

\* C36: a try_pop that returns false, because the header at read has
\* size <= 0 or because its CAS on read_ lost, has changed none of read_,
\* tail_, head_, the headers and the caller's buffer, and returns without
\* another round; a try_pop that returns true has advanced read_ by the
\* aligned block size of the record it returns and has stored -size in the
\* header of that record
C36_PopOutcomes ==
  [][C36_FailedPop /\ C36_SuccessfulPop]_vars

\* one consumer has taken a record and is about to store its tombstone
\* while another one holds the old value of read_ for its CAS
C36_Witness ==
  \E c1, c2 \in Consumers :
    /\ vpc[c1] = "pop_tomb"
    /\ vpc[c2] = "pop_cas"
    /\ read_ # vloc[c2].read

\* the pop calls that wait for an element no producer has a ticket for
WaitingReaders ==
  {c \in Consumers : fpc[c] = "pop_spin" /\ floc[c].tail >= q_head_}

\* C37 as stated: head_ >= tail_ in every reachable state
C37_HeadNotBehindTail == q_head_ >= q_tail_

\* C37: in every reachable state of any interleaving of push, try_push, pop
\* and try_pop, tail_ exceeds head_ by at most the number of pop calls that
\* wait on an empty queue (size() is negative then, as the comment of
\* size() says); with no such pop, head_ >= tail_
C37_CursorOrder ==
  q_head_ + Cardinality(WaitingReaders) >= q_tail_

\* both consumers wait in pop on the empty queue: tail_ is two ahead
C37_Witness ==
  /\ q_tail_ = q_head_ + 2
  /\ Cardinality(WaitingReaders) = 2

\* C38: once try_push has returned true for a record of any accepted
\* length, length 0 included, and every earlier record has been consumed
\* (read_ is at the start of its block), a try_pop without a competing
\* consumer returns true with a buffer of that length: the header at read_
\* holds the length of the record and try_pop does not take it for nothing
C38_AcceptedCanBePopped ==
  \A id \in accepted :
    read_ = BlockStart(id) % SizeMod
      => /\ HeaderSize(read_) = sent[id].len
         /\ ~PopNothing(HeaderSize(read_))

\* C39: in every reachable state the raw value of head_, flag bit included,
\* differs from read_: while head_ holds an even, not yet stabilised value
\* the block just reserved is unpublished and read_ is at or before it, so
\* the loop 'while (head_ == read)' of try_pop ends at its first test
C39_SpinNeverIterates ==
  /\ head_ # read_
  /\ \A c \in Consumers : vpc[c] = "pop_spin" => head_ # vloc[c].read
  /\ (head_ % 2 = 0
        => /\ \E p \in Producers : InWindow(p) /\ vloc[p].new_head = head_
           /\ read_ < head_)

\* a consumer is at the test of the loop while head_ is even: a producer is
\* between its CAS and its stabilising store
C39_Witness ==
  /\ head_ % 2 = 0
  /\ \E c \in Consumers : vpc[c] = "pop_spin" /\ vloc[c].read = read_
  /\ read_ > 0

\* C40: for every request size of the machine word, sizes near 2^w
\* included, a successful Allocate(n) returns a range [s, s + n) that lies
\* inside [0, capacity) and overlaps no earlier allocation, and the bump
\* offset never decreases
C40_AllocateOverFullRange ==
  \A P \in Objects :
    (seg[P].life = "live" /\ seg[P].type = "kCreate"
       /\ seg[P].buffer_[1] = "view")
      => /\ \A i \in 1..Len(seg[P].allocs) :
              seg[P].allocs[i][1] + seg[P].allocs[i][2] <= seg[P].capacity_
         /\ \A i, j \in 1..Len(seg[P].allocs) :
              i < j => seg[P].allocs[i][1] + seg[P].allocs[i][2]
                         <= seg[P].allocs[j][1]
         /\ \A i \in 1..Len(seg[P].allocs) :
              seg[P].allocs[i][1] + seg[P].allocs[i][2] <= seg[P].size_

====
